---- MODULE Spec2Model ----
(***************************************************************************)
(* A model of the CSI-FiSh implementation vnchari/csifish: the keyed,      *)
(* labelled Merkle tree over the public curves (merkle.rs), the            *)
(* Fiat-Shamir signature protocol (signature.rs) and the constant-time     *)
(* "one-time blinded" class-group action (constant_time.rs).               *)
(*                                                                         *)
(* Hash digests are terms: Hash(n, fields) is the tuple <<n>> \o fields,   *)
(* so the hash is injective on (iteration depth, input fields).  A curve   *)
(* in the protocol model is the class-group element g with curve = g * E0, *)
(* the group being Z/ORDER; in the action model a curve is the vector of   *)
(* isogeny steps taken from the start curve, one entry per prime.          *)
(*                                                                         *)
(* The limb arithmetic (field_arithmetic/) and the lattice reduction       *)
(* (lattice.rs) are modelled word by word, on words of WordBits bits and   *)
(* on a prime and a class-group order that fit LIMBS and CG_LIMBS words.   *)
(***************************************************************************)
EXTENDS Integers, Sequences, FiniteSets, TLC

VARIABLES mk,   \* the Merkle scenario: tree, opened leaves, proof, verdict
          sg,   \* the signature scenario: key pair, signature, verdict
          xof,  \* the extendable-output hash, sampled lazily
          ot,   \* one run of one_time_blinded_action
          lk,   \* two runs of the mop-up loop on the same sampled points
          cm,   \* two short exponents applied to E0 in both orders
          fa    \* one call into the limb arithmetic, inputs and result

vars == <<mk, sg, xof, ot, lk, cm, fa>>

-----------------------------------------------------------------------------
(* Bounds and parameters *)

\* depth of the largest tree of the Merkle scenario (CURVES = 2^depth)
MaxDepth == 2
\* longest list of leaf indices opened in the Merkle scenario
MaxOpen == 3
\* number of curve values the leaves are drawn from
NumCurveVals == 2
\* the hash-iteration depth HASHES of the scheme
HASHES == 1
\* the scheme's CURVES and ROUNDS (const generics), at small values
CURVES == 2
ROUNDS == 2
\* the order N of the class group, at a small value
ORDER == 3
\* the width of a challenge: i32, at a small width (two's complement)
ChalBits == 3
\* how many signatures one key makes in the signing scenario
MaxSigns == 2
\* the number of primes of the action (74 in the program), at a small value
NUM_PRIMES == 4
\* the constants of one_time_blinded_action
NUM_BATCHES == 4
MERGE_AFTER == 2
BLIND_MAX_EXP == 2
\* the loop of one_time_blinded_action is followed for this many iterations
MaxIter == 10
\* number of exponent vectors the action scenario draws from
NumExps == 2

\* how many bytes longer than an encoding the inputs of from_be_bytes get
MaxExtra == 2
\* blinding draws followed under fair sampling
NumDraws == 3
\* the entries of the vectors dlw_reduce is called with are at most this in
\* absolute value
MaxEntry == 2

-----------------------------------------------------------------------------
(* Generic helpers *)

Range(s) == { s[i] : i \in DOMAIN s }

Min(a, b) == IF a < b THEN a ELSE b

RECURSIVE Pow2(_)
Pow2(n) == IF n = 0 THEN 1 ELSE 2 * Pow2(n - 1)

\* u32::ilog2 for n >= 1
RECURSIVE ilog2(_)
ilog2(n) == IF n <= 1 THEN 0 ELSE 1 + ilog2(n \div 2)

\* all sequences over S of length lo..hi
SeqsOf(S, lo, hi) == UNION { [1..n -> S] : n \in lo..hi }

\* the orderings of a finite set, as sequences without repetition
Perms(S) == { p \in [1..Cardinality(S) -> S] : Range(p) = S }

-----------------------------------------------------------------------------
(* hash.rs *)

\* Hasher::new(n).hash(input): the digest of the concatenated fields
Hash(n, fields) == <<n>> \o fields

\* a 16-byte value that is the digest of nothing the model hashes
JunkHash == <<>>

-----------------------------------------------------------------------------
(* merkle.rs: ClassGroupMerkleTree *)

\* the leaf layer of from_leaves: H(curve.x || label || key), label = CURVES + i
LeafLayer(leaves, key) ==
    [ i \in 1..Len(leaves) |->
        Hash(HASHES, <<leaves[i], Len(leaves) + (i - 1), key>>) ]

\* one pass of the layer loop: chunks(2) of the last layer, hashed with the
\* label (curves >> layers.len()) + i
NextLayer(layers, curves, key) ==
    LET last == layers[Len(layers)]
        base == curves \div Pow2(Len(layers))
    IN [ i \in 1..(Len(last) \div 2) |->
           Hash(HASHES, <<last[2 * i - 1], last[2 * i], base + (i - 1), key>>) ]

RECURSIVE BuildLayers(_, _, _, _)
BuildLayers(layers, curves, key, todo) ==
    IF todo = 0 THEN layers
    ELSE BuildLayers(Append(layers, NextLayer(layers, curves, key)),
                     curves, key, todo - 1)

from_leaves(leaves, key) ==
    LET curves == Len(leaves)
        depth == ilog2(curves)
        layers == BuildLayers(<<LeafLayer(leaves, key)>>, curves, key, depth)
    IN [ root |-> layers[Len(layers)][1], merkle_key |-> key, layers |-> layers ]

TreeDepth(tree) == Len(tree.layers) - 1

TreeCurves(tree) == Len(tree.layers[1])

\* the left node of the pair, for either node of it
Sibling_Left(idx) == idx - (idx % 2)

\* (sibling, parent) of a heap label
Sibling(idx) == idx + 1 - 2 * (idx % 2)

Parent(idx) == idx \div 2

\* the level loop of proof_from_leaf_indices: the set `unknown`
RECURSIVE UnknownLabels(_, _, _, _)
UnknownLabels(level, known, unknown, todo) ==
    IF todo = 0 THEN unknown
    ELSE LET known2 == known \cup Range(level)
             unknown2 == unknown \cup
                 { Sibling(level[i]) : i \in { j \in DOMAIN level :
                                               Sibling(level[j]) \notin known2 } }
             next_level == [ i \in DOMAIN level |-> Parent(level[i]) ]
         IN UnknownLabels(next_level, known2, unknown2, todo - 1)

\* the hash the tree stores for a heap label
StoredHash(tree, idx) ==
    LET level == ilog2(idx)
        pos_in_level == idx - Pow2(level)
    IN tree.layers[TreeDepth(tree) - level + 1][pos_in_level + 1]

\* proof_from_leaf_indices: the (label, hash) pairs, before the HashSet's
\* iteration order puts them in a vector
proof_from_leaf_indices(tree, leaf_indices) ==
    LET level == [ i \in DOMAIN leaf_indices |-> leaf_indices[i] + TreeCurves(tree) ]
        unknown == UnknownLabels(level, {}, {}, TreeDepth(tree))
    IN { <<idx, StoredHash(tree, idx)>> : idx \in unknown }

-----------------------------------------------------------------------------
(* merkle.rs: ClassGroupMerkleProof::verify *)

\* leaf_hashes.sort_by_key(label): a stable insertion sort
RECURSIVE InsertByLabel(_, _)
InsertByLabel(sorted, e) ==
    IF sorted = <<>> THEN <<e>>
    ELSE IF sorted[Len(sorted)][1] <= e[1] THEN Append(sorted, e)
    ELSE Append(InsertByLabel(SubSeq(sorted, 1, Len(sorted) - 1), e),
                sorted[Len(sorted)])

\* a sort that leaves the leaves in the caller's order
SortByLabel_Unsorted(s) == s

RECURSIVE SortByLabel(_)
SortByLabel(s) ==
    IF s = <<>> THEN <<>>
    ELSE InsertByLabel(SortByLabel(SubSeq(s, 1, Len(s) - 1)), s[Len(s)])

\* Vec::dedup: drops an element equal to the one before it
RECURSIVE Dedup(_)
Dedup(s) ==
    IF Len(s) <= 1 THEN s
    ELSE LET d == Dedup(SubSeq(s, 1, Len(s) - 1))
         IN IF d[Len(d)] = s[Len(s)] THEN d ELSE Append(d, s[Len(s)])

\* HashMap::from_iter(proof): a later entry of a label replaces an earlier one
RECURSIVE MapFromProof(_)
MapFromProof(proof) ==
    IF proof = <<>> THEN << >>
    ELSE LET m == MapFromProof(SubSeq(proof, 1, Len(proof) - 1))
             e == proof[Len(proof)]
         IN [ l \in (DOMAIN m) \cup {e[1]} |-> IF l = e[1] THEN e[2] ELSE m[l] ]

MapInsert(m, l, h) == [ x \in (DOMAIN m) \cup {l} |-> IF x = l THEN h ELSE m[x] ]

\* the hash of a node from its own hash and its sibling's: the even label is
\* the left child
Combine(num_hashes, label, hash, sibling_hash, key) ==
    IF label % 2 = 0
    THEN Hash(num_hashes, <<hash, sibling_hash, Parent(label), key>>)
    ELSE Hash(num_hashes, <<sibling_hash, hash, Parent(label), key>>)

\* the loop of verify and the comparison with the root; "Panic" is the abort
\* of assert!(level.len() > 0)
RECURSIVE VerifyLoop(_, _, _, _, _)
VerifyLoop(level, tree, num_hashes, root, key) ==
    IF level = <<>> THEN "Panic"
    ELSE LET label == level[1][1]
             hash == level[1][2]
             rest == Tail(level)
         IN IF Parent(label) \in DOMAIN tree
            THEN VerifyLoop(rest, tree, num_hashes, root, key)
            ELSE LET next_is_sibling ==
                         /\ label % 2 = 0
                         /\ rest # <<>>
                         /\ rest[1][1] = label + 1
                 IN IF ~next_is_sibling /\ Sibling(label) \notin DOMAIN tree
                    THEN "Err"
                    ELSE LET result ==
                                 IF next_is_sibling
                                 THEN Hash(num_hashes,
                                           <<hash, rest[1][2], Parent(label), key>>)
                                 ELSE Combine(num_hashes, label, hash,
                                              tree[Sibling(label)], key)
                             tree2 == MapInsert(tree, Parent(label), result)
                         IN IF Parent(label) = 1
                            THEN (IF tree2[1] = root THEN "Ok" ELSE "Err")
                            ELSE VerifyLoop(Append(rest, <<Parent(label), result>>),
                                            tree2, num_hashes, root, key)

\* ClassGroupMerkleProof::verify; proof is [num_hashes, proof]
proof_verify(proof, root, leaf_hashes, merkle_key) ==
    VerifyLoop(Dedup(SortByLabel(leaf_hashes)), MapFromProof(proof.proof),
               proof.num_hashes, root, merkle_key)


-----------------------------------------------------------------------------
(* classgroup.rs, montgomery.rs, variable_time.rs: the group and its action *)

ClassGroup == 0..(ORDER - 1)

\* ClassGroupElement add and sub: add_reduce, sub_reduce modulo the order
cg_add(x, y) == (x + y) % ORDER

cg_sub(x, y) == (x - y + ORDER) % ORDER

\* the curve E0 (A = 0): the curve of the neutral element
BASE_CURVE == 0

\* x.reduce().variable_time_action(curve): the curve x * curve
Act(x, curve) == (x + curve) % ORDER

\* MontgomeryCurve::twist: A -> -A, the curve of the inverse element
twist(curve) == (ORDER - curve) % ORDER

\* MontgomeryCurve::to_be_bytes: the 64 bytes of the normalised A
to_be_bytes(curve) == <<curve>>

-----------------------------------------------------------------------------
(* signature.rs *)

ChalWords == 0..(Pow2(ChalBits) - 1)

\* the four-byte words the extendable-output hash is let answer with: as
\* i32 they are -1, 0, 1, 2: negative, zero and positive, both curve indices
XofWords == {7, 0, 1, 2}

\* i32::from_be_bytes of one four-byte chunk: two's complement
from_be_bytes(word) ==
    IF word >= Pow2(ChalBits - 1) THEN word - Pow2(ChalBits) ELSE word

\* i32::unsigned_abs
unsigned_abs(n) == IF n < 0 THEN 0 - n ELSE n

InRange(n) == n >= 0 - Pow2(ChalBits - 1) /\ n < Pow2(ChalBits - 1)

\* two's-complement wrap-around of an i32 result
Wrap(n) == ((n + Pow2(ChalBits - 1)) % Pow2(ChalBits)) - Pow2(ChalBits - 1)

RECURSIVE Flatten(_)
Flatten(ss) == IF ss = <<>> THEN <<>> ELSE Head(ss) \o Flatten(Tail(ss))

\* the bytes hashed into the challenges: ser(F_1) || ... || ser(F_k) || msg
XofInput(curves, msg) ==
    Flatten([ j \in DOMAIN curves |-> to_be_bytes(curves[j]) ]) \o msg

\* hash_extendable(v) followed by read_exact of ROUNDS * 4 bytes: what the
\* extendable-output hash may answer for input v, given its answers so far
XofOutputs(v) ==
    IF v \in DOMAIN xof THEN {xof[v]} ELSE [1..ROUNDS -> XofWords]

\* SigningKey::generate, given the secret scalars and the Merkle key drawn
generate(secrets, key) ==
    LET curves == [ i \in 1..CURVES |-> Act(secrets[i], BASE_CURVE) ]
    IN [ proof_tree |-> from_leaves(curves, key),
         public_curves |-> curves,
         secret_actions |-> secrets ]

verifying_key(sk) ==
    [ root |-> sk.proof_tree.root, merkle_key |-> sk.proof_tree.merkle_key ]

\* a response that subtracts the secret whatever the sign of the challenge
Response_AlwaysSub(sk, n, ephem_cge) ==
    cg_sub(ephem_cge, sk.secret_actions[(unsigned_abs(n) % CURVES) + 1])

\* the response of one round of try_sign
Response(sk, n, ephem_cge) ==
    LET curve_num == unsigned_abs(n) % CURVES
    IN IF n > 0
       THEN cg_sub(ephem_cge, sk.secret_actions[curve_num + 1])
       ELSE cg_add(ephem_cge, sk.secret_actions[curve_num + 1])

\* the input try_sign hashes, given the ephemeral scalars b drawn
SignInput(b, msg) ==
    XofInput([ j \in 1..ROUNDS |-> Act(b[j], BASE_CURVE) ], msg)

\* SigningKey::try_sign, given the scalars b, the hash output and the order
\* of the proof vector
try_sign(sk, b, challenges, proof) ==
    LET n == [ j \in 1..ROUNDS |-> from_be_bytes(challenges[j]) ]
        curve_num == [ j \in 1..ROUNDS |-> unsigned_abs(n[j]) % CURVES ]
    IN [ num_curves |-> CURVES,
         challenges |-> challenges,
         tail_bytes |-> 0,
         ephemeral_cge |-> [ j \in 1..ROUNDS |-> Response(sk, n[j], b[j]) ],
         opened_curves |-> [ j \in 1..ROUNDS |-> sk.public_curves[curve_num[j] + 1] ],
         proof |-> [ num_hashes |-> HASHES, proof |-> proof ] ]

\* the parsed challenges of a signature
Challenges(sig) == [ j \in DOMAIN sig.challenges |-> from_be_bytes(sig.challenges[j]) ]

\* the leaf label verify computes for a challenge
LeafLabel(sig, challenge) == (unsigned_abs(challenge) % CURVES) + sig.num_curves

\* the (label, hash) pairs verify hands to the Merkle proof
LeafHashes(vk, sig) ==
    LET c == Challenges(sig)
    IN [ j \in DOMAIN c |->
           <<LeafLabel(sig, c[j]),
             Hash(HASHES, <<sig.opened_curves[j], LeafLabel(sig, c[j]),
                            vk.merkle_key>>)>> ]

\* the curves verify re-derives: zip of responses, opened curves, challenges
RederivedCurves(sig) ==
    LET c == Challenges(sig)
        k == Min(Len(sig.ephemeral_cge), Min(Len(sig.opened_curves), Len(c)))
    IN [ j \in 1..k |->
           IF c[j] > 0
           THEN Act(sig.ephemeral_cge[j], sig.opened_curves[j])
           ELSE Act(sig.ephemeral_cge[j], twist(sig.opened_curves[j])) ]

\* the first two checks of verify and the Merkle check with its unwrap:
\* "Err", "Panic", or "Hash" when verify goes on to hash
VerifyHead(vk, sig) ==
    IF sig.tail_bytes # 0 THEN "Err"
    ELSE IF Len(sig.challenges) # Len(sig.opened_curves) THEN "Err"
    ELSE IF proof_verify(sig.proof, vk.root, LeafHashes(vk, sig), vk.merkle_key) # "Ok"
         THEN "Panic"
    ELSE "Hash"

VerifyInput(sig, msg) == XofInput(RederivedCurves(sig), msg)

\* the differences c'_j - c_j, over zip(derived, challenges)
Diffs(sig, derived) ==
    LET c == Challenges(sig)
    IN [ j \in 1..Min(ROUNDS, Len(c)) |-> from_be_bytes(derived[j]) - c[j] ]

\* reduce(|x, acc| acc + x) in i32: whether a partial sum overflows
RECURSIVE SumOverflows(_, _)
SumOverflows(acc, rest) ==
    IF rest = <<>> THEN FALSE
    ELSE IF ~InRange(acc + Head(rest)) THEN TRUE
    ELSE SumOverflows(acc + Head(rest), Tail(rest))

\* the same sum with wrap-around
RECURSIVE SumWrap(_, _)
SumWrap(acc, rest) ==
    IF rest = <<>> THEN acc ELSE SumWrap(Wrap(acc + Head(rest)), Tail(rest))

\* the verdicts of verify's last step.  With overflow checks (a debug build)
\* an overflowing subtraction or addition panics; without them it wraps.
VerifyTail(sig, derived) ==
    LET d == Diffs(sig, derived)
        wrapped == [ j \in DOMAIN d |-> Wrap(d[j]) ]
        overflows == \/ \E j \in DOMAIN d : ~InRange(d[j])
                     \/ (d # <<>> /\ SumOverflows(d[1], Tail(d)))
    IN IF d = <<>> THEN {"Err"}
       ELSE (IF SumWrap(wrapped[1], Tail(wrapped)) = 0 THEN {"Ok"} ELSE {"Err"})
                \cup (IF overflows THEN {"Panic"} ELSE {})

-----------------------------------------------------------------------------
(* The Merkle scenario: build a tree, open a list of leaves, verify the    *)
(* proof, either as produced or after one alteration.                      *)

MerkleKeys == {0, 1}

\* the curve lists a tree is built from: C = 2^d curves, d in 1..MaxDepth
LeafChoices ==
    UNION { { [ i \in 1..Pow2(d) |-> ((i - 1) * k) % NumCurveVals ] :
              k \in 0..(NumCurveVals - 1) } : d \in 1..MaxDepth }

NoTree == [ root |-> JunkHash, merkle_key |-> 0, layers |-> <<>> ]

NoProof == [ num_hashes |-> HASHES, proof |-> <<>> ]

\* the vector a HashSet of proof entries is collected into: the set in
\* ascending or in descending label order
ProofOrders(S) ==
    { p \in Perms(S) :
        \/ \A i \in 1..(Len(p) - 1) : p[i][1] < p[i + 1][1]
        \/ \A i \in 1..(Len(p) - 1) : p[i][1] > p[i + 1][1] }

\* every digest stored in the tree, and one stored nowhere
TreeHashes(tree) ==
    UNION { Range(tree.layers[l]) : l \in DOMAIN tree.layers } \cup {JunkHash}

TreeLabels(tree) == 0..(2 * TreeCurves(tree) - 1)

MkInit ==
    mk = [ pc |-> "start", tree |-> NoTree, indices |-> <<>>,
           leaf_hashes |-> <<>>, proof |-> NoProof, root |-> JunkHash,
           tamper |-> "none", res |-> "none" ]

\* ClassGroupMerkleTree::from_leaves
MkBuild ==
    /\ mk.pc = "start"
    /\ \E leaves \in LeafChoices, key \in MerkleKeys :
         mk' = [ mk EXCEPT !.pc = "built", !.tree = from_leaves(leaves, key),
                           !.root = from_leaves(leaves, key).root ]
    /\ UNCHANGED <<sg, xof, ot, lk, cm, fa>>

\* proof_from_leaf_indices on a non-empty list of leaf indices, in any order
\* and with repetitions; the caller pairs each opened label with its leaf hash
MkProve ==
    /\ mk.pc = "built"
    /\ \E S \in SeqsOf(0..(TreeCurves(mk.tree) - 1), 1, MaxOpen) :
         \E p \in ProofOrders(proof_from_leaf_indices(mk.tree, S)) :
           mk' = [ mk EXCEPT
                     !.pc = "proved",
                     !.indices = S,
                     !.leaf_hashes =
                         [ j \in DOMAIN S |->
                             <<TreeCurves(mk.tree) + S[j],
                               mk.tree.layers[1][S[j] + 1]>> ],
                     !.proof = [ num_hashes |-> HASHES, proof |-> p ] ]
    /\ UNCHANGED <<sg, xof, ot, lk, cm, fa>>

\* ClassGroupMerkleProof::verify
MkVerify ==
    /\ mk.pc \in {"proved", "tampered"}
    /\ mk' = [ mk EXCEPT
                 !.pc = "verified",
                 !.res = proof_verify(mk.proof, mk.root, mk.leaf_hashes,
                                      mk.tree.merkle_key) ]
    /\ UNCHANGED <<sg, xof, ot, lk, cm, fa>>

\* the hash of one opened leaf is replaced
MkTamperLeaf ==
    /\ mk.pc = "proved"
    /\ \E j \in DOMAIN mk.leaf_hashes :
         \E h \in TreeHashes(mk.tree) \ {mk.leaf_hashes[j][2]} :
           mk' = [ mk EXCEPT !.pc = "tampered", !.tamper = "leaf",
                             !.leaf_hashes[j] = <<mk.leaf_hashes[j][1], h>> ]
    /\ UNCHANGED <<sg, xof, ot, lk, cm, fa>>

\* the root is replaced
MkTamperRoot ==
    /\ mk.pc = "proved"
    /\ \E h \in TreeHashes(mk.tree) \ {mk.root} :
         mk' = [ mk EXCEPT !.pc = "tampered", !.tamper = "root", !.root = h ]
    /\ UNCHANGED <<sg, xof, ot, lk, cm, fa>>

\* the label of one proof entry is replaced
MkTamperProofLabel ==
    /\ mk.pc = "proved"
    /\ \E k \in DOMAIN mk.proof.proof :
         \E l \in TreeLabels(mk.tree) \ {mk.proof.proof[k][1]} :
           mk' = [ mk EXCEPT !.pc = "tampered", !.tamper = "proof_label",
                             !.proof.proof[k] = <<l, mk.proof.proof[k][2]>> ]
    /\ UNCHANGED <<sg, xof, ot, lk, cm, fa>>

\* the hash of one proof entry is replaced
MkTamperProofHash ==
    /\ mk.pc = "proved"
    /\ \E k \in DOMAIN mk.proof.proof :
         \E h \in TreeHashes(mk.tree) \ {mk.proof.proof[k][2]} :
           mk' = [ mk EXCEPT !.pc = "tampered", !.tamper = "proof_hash",
                             !.proof.proof[k] = <<mk.proof.proof[k][1], h>> ]
    /\ UNCHANGED <<sg, xof, ot, lk, cm, fa>>


-----------------------------------------------------------------------------
(* The signature scenario: generate a key, sign, verify the signature as   *)
(* produced or after one alteration.                                       *)

\* messages, as byte strings
Msgs == { <<0>>, <<1>> }

NoKey == [ proof_tree |-> NoTree, public_curves |-> <<>>, secret_actions |-> <<>> ]

NoSig == [ num_curves |-> CURVES, challenges |-> <<>>, tail_bytes |-> 0,
           ephemeral_cge |-> <<>>, opened_curves |-> <<>>, proof |-> NoProof ]

SgInit ==
    sg = [ pc |-> "start", sk |-> NoKey, vk |-> verifying_key(NoKey),
           msg |-> <<>>, sig |-> NoSig, signs |-> 0, tamper |-> "none",
           res |-> "none", derived |-> <<>> ]

\* SigningKey::generate and verifying_key
SgGenerate ==
    /\ sg.pc = "start"
    /\ \E secrets \in [1..CURVES -> ClassGroup] :
         LET sk == generate(secrets, 0)
         IN sg' = [ sg EXCEPT !.pc = "keyed", !.sk = sk, !.vk = verifying_key(sk) ]
    /\ UNCHANGED <<mk, xof, ot, lk, cm, fa>>

\* SigningKey::try_sign, for a key that has signed fewer than limit times
Sign(limit) ==
    /\ sg.pc \in {"keyed", "verified"}
    /\ sg.tamper = "none"
    /\ sg.signs < limit
    /\ \E msg \in Msgs, b \in [1..ROUNDS -> ClassGroup] :
         \E challenges \in XofOutputs(SignInput(b, msg)) :
           LET n == [ j \in 1..ROUNDS |-> from_be_bytes(challenges[j]) ]
               opened_curve_indices ==
                   [ j \in 1..ROUNDS |-> unsigned_abs(n[j]) % CURVES ]
           IN \E p \in ProofOrders(proof_from_leaf_indices(sg.sk.proof_tree,
                                                           opened_curve_indices)) :
                /\ sg' = [ sg EXCEPT !.pc = "signed", !.msg = msg,
                                     !.sig = try_sign(sg.sk, b, challenges, p),
                                     !.signs = sg.signs + 1,
                                     !.res = "none", !.derived = <<>> ]
                /\ xof' = MapInsert(xof, SignInput(b, msg), challenges)
    /\ UNCHANGED <<mk, ot, lk, cm, fa>>

\* the same key signs up to MaxSigns times
SgSign == Sign(MaxSigns)

\* the key signs once
SgSignOnce == Sign(1)

\* VerifyingKey::verify of the signature at hand, for the message signed
SgVerify ==
    /\ sg.pc \in {"signed", "tampered"}
    /\ LET head == VerifyHead(sg.vk, sg.sig)
       IN IF head # "Hash"
          THEN /\ sg' = [ sg EXCEPT !.pc = "verified", !.res = head ]
               /\ xof' = xof
          ELSE \E derived \in XofOutputs(VerifyInput(sg.sig, sg.msg)) :
                 \E res \in VerifyTail(sg.sig, derived) :
                   /\ sg' = [ sg EXCEPT !.pc = "verified", !.res = res,
                                        !.derived = derived ]
                   /\ xof' = MapInsert(xof, VerifyInput(sg.sig, sg.msg), derived)
    /\ UNCHANGED <<mk, ot, lk, cm, fa>>

\* the signature as the verifier receives it after one alteration
Tampered(kind, sig) ==
    /\ sg.pc = "signed"
    /\ sg' = [ sg EXCEPT !.pc = "tampered", !.tamper = kind, !.sig = sig ]
    /\ UNCHANGED <<mk, xof, ot, lk, cm, fa>>

\* one byte of the challenge stream is changed: one four-byte challenge
\* takes another value
SgTamperChallenge ==
    \E j \in DOMAIN sg.sig.challenges :
      \E w \in ChalWords \ {sg.sig.challenges[j]} :
        Tampered("challenge", [ sg.sig EXCEPT !.challenges[j] = w ])

\* one response scalar is changed
SgTamperResponse ==
    \E j \in DOMAIN sg.sig.ephemeral_cge :
      \E r \in ClassGroup \ {sg.sig.ephemeral_cge[j]} :
        Tampered("response", [ sg.sig EXCEPT !.ephemeral_cge[j] = r ])

\* one opened curve is changed
SgTamperCurve ==
    \E j \in DOMAIN sg.sig.opened_curves :
      \E c \in ClassGroup \ {sg.sig.opened_curves[j]} :
        Tampered("curve", [ sg.sig EXCEPT !.opened_curves[j] = c ])

\* one Merkle proof entry is changed: its label or its hash
SgTamperProof ==
    \E k \in DOMAIN sg.sig.proof.proof :
      \/ \E l \in TreeLabels(sg.sk.proof_tree) \ {sg.sig.proof.proof[k][1]} :
           Tampered("proof",
                    [ sg.sig EXCEPT !.proof.proof[k] = <<l, sg.sig.proof.proof[k][2]>> ])
      \/ \E h \in TreeHashes(sg.sk.proof_tree) \ {sg.sig.proof.proof[k][2]} :
           Tampered("proof",
                    [ sg.sig EXCEPT !.proof.proof[k] = <<sg.sig.proof.proof[k][1], h>> ])

\* a sequence cut or extended to length n, extended by repeating its last entry
Resize(s, n) == [ j \in 1..n |-> IF j <= Len(s) THEN s[j] ELSE s[Len(s)] ]

\* the signature's shape is changed: stray bytes after the last four-byte
\* challenge, or other numbers of challenges, responses and opened curves
SgTamperShape ==
    \/ \E t \in 1..3 :
         Tampered("shape", [ sg.sig EXCEPT !.tail_bytes = t ])
    \/ \E nc, nr, no \in 0..(ROUNDS + 1) :
         /\ <<nc, nr, no>> # <<ROUNDS, ROUNDS, ROUNDS>>
         /\ Tampered("shape",
                     [ sg.sig EXCEPT
                         !.challenges = Resize(sg.sig.challenges, nc),
                         !.ephemeral_cge = Resize(sg.sig.ephemeral_cge, nr),
                         !.opened_curves = Resize(sg.sig.opened_curves, no) ])

\* the num_curves field the signature carries holds another u32
SgTamperNumCurves ==
    \E n \in (0..(2 * CURVES)) \ {sg.sig.num_curves} :
      Tampered("num_curves", [ sg.sig EXCEPT !.num_curves = n ])

\* the signature is presented to the verifying key of another signing key
SgOtherKey ==
    /\ sg.pc = "signed"
    /\ \E secrets \in [1..CURVES -> ClassGroup] :
         /\ secrets # sg.sk.secret_actions
         /\ sg' = [ sg EXCEPT !.pc = "tampered", !.tamper = "key",
                              !.vk = verifying_key(generate(secrets, 0)) ]
    /\ UNCHANGED <<mk, xof, ot, lk, cm, fa>>

-----------------------------------------------------------------------------
(* constant_time.rs: one_time_blinded_action.  A curve is the vector, over  *)
(* the primes, of the isogeny steps taken from the base curve.              *)

Primes == 0..(NUM_PRIMES - 1)

Batches == 0..(NUM_BATCHES - 1)

\* the inputs of the action: a short exponent vector and a start curve, the
\* base curve or a curve some steps away from it
ActionInputs ==
    { [ exps |-> [ q \in Primes |-> ((q * k + k) % 5) - 2 ],
        curve |-> [ q \in Primes |-> (q * (k - 1)) % 3 ] ] : k \in 1..NumExps }

\* variable_time_action: |exps[q]| isogeny steps of degree l_q, in the
\* direction of the sign of exps[q]
variable_time_action(exps, curve) ==
    [ q \in Primes |-> curve[q] + exps[q] ]

\* a blind loop that keeps every 3-bit value
BlindVals_NoReject == { val - BLIND_MAX_EXP : val \in 0..7 }

\* the values b of the blind loop: val = byte >> 5, kept if val <= 2 * BLIND_MAX_EXP
BlindVals ==
    { val - BLIND_MAX_EXP : val \in { v \in 0..7 : v <= 2 * BLIND_MAX_EXP } }

\* a sign bit that is never set
sign_bit_Never(cur_exp) == 0

\* ((cur_exp >> 7) & 1) of an i8
sign_bit(cur_exp) == IF cur_exp < 0 THEN 1 ELSE 0

\* a mask that takes every residual for non-zero
is_non_zero_Always(cur_exp) == 1

\* (uexp | !uexp.wrapping_sub(1)) >> 7 of uexp = cur_exp as u8
is_non_zero(cur_exp) ==
    LET uexp == cur_exp % 256
        not_sub == 255 - ((uexp - 1) % 256)
    IN IF uexp >= 128 \/ not_sub >= 128 THEN 1 ELSE 0

\* a blind step that adds b to the residual instead of subtracting it
AfterBlind_SameSign(exps, curve, b) ==
    [ exponents |-> exps,
      blinded_exponents |-> [ q \in Primes |-> exps[q] + b[q] ],
      blinding |-> b,
      e |-> variable_time_action([ q \in Primes |-> exps[q] + b[q] ], curve),
      isogeny_count |-> [ q \in Primes |-> 2 ],
      done |-> [ j \in Batches |-> FALSE ],
      batch_masks |-> [ j \in Batches |-> { q \in Primes : q % NUM_BATCHES = j } ],
      cur_batch |-> 0,
      i |-> 0 ]

\* the state of one call after the blind step, before the first iteration
AfterBlind(exps, curve, b) ==
    [ exponents |-> exps,
      blinded_exponents |-> [ q \in Primes |-> exps[q] + b[q] ],
      blinding |-> [ q \in Primes |-> 0 - b[q] ],
      e |-> variable_time_action([ q \in Primes |-> exps[q] + b[q] ], curve),
      isogeny_count |-> [ q \in Primes |-> 2 ],
      done |-> [ j \in Batches |-> FALSE ],
      batch_masks |-> [ j \in Batches |-> { q \in Primes : q % NUM_BATCHES = j } ],
      cur_batch |-> 0,
      i |-> 0 ]

\* while done[cur_batch]: the batch the loop stops at, or NUM_BATCHES (no
\* batch) when the function returns, early_finish having reached NUM_BATCHES
RECURSIVE SkipDone(_, _, _)
SkipDone(done, cur_batch, early_finish) ==
    IF ~done[cur_batch] THEN cur_batch
    ELSE IF early_finish = NUM_BATCHES THEN NUM_BATCHES
    ELSE SkipDone(done, (cur_batch + 1) % NUM_BATCHES, early_finish + 1)

\* the head of one iteration: the merge of all pending primes into batch 0
\* after MERGE_AFTER * NUM_BATCHES iterations, else the skip of done batches
Merged(st) ==
    LET pending == { q \in Primes : st.isogeny_count[q] # 0 }
    IN [ st EXCEPT !.cur_batch = 0,
                   !.batch_masks[0] = pending,
                   !.done[0] = IF pending # {} THEN FALSE ELSE st.done[0] ]

Returns(st) ==
    IF st.i > MERGE_AFTER * NUM_BATCHES
    THEN Merged(st).done[0]
    ELSE SkipDone(st.done, st.cur_batch, 0) = NUM_BATCHES

Enter(st) ==
    IF st.i > MERGE_AFTER * NUM_BATCHES
    THEN Merged(st)
    ELSE [ st EXCEPT !.cur_batch = SkipDone(st.done, st.cur_batch, 0) ]

\* what elligator and the cofactor scaling give: the primes of the batch in
\* which p_0 (on the curve) and p_1 (on its twist) have a non-trivial part
Samples(st) ==
    [ p_0 : SUBSET st.batch_masks[st.cur_batch],
      p_1 : SUBSET st.batch_masks[st.cur_batch] ]

\* whether the kernel point k of a prime is non-zero: k comes from p_0 or,
\* when the sign bit of blinding[prime_index] is set, from p_1
KNonZero(st, prime_index, sample) ==
    IF sign_bit(st.blinding[prime_index]) = 1
    THEN prime_index \in sample.p_1
    ELSE prime_index \in sample.p_0

\* the primes of the batch whose kernel point k is non-zero in an iteration
KernelSet(st, sample) ==
    { q \in st.batch_masks[st.cur_batch] : KNonZero(st, q, sample) }

\* a pass that clears the bit of the prime only when its kernel point is
\* non-zero
PrimeStep_KeepBit(st, prime_index, kernels) ==
    IF prime_index \in kernels
    THEN [ st EXCEPT !.batch_masks[st.cur_batch] = @ \ {prime_index},
                     !.isogeny_count[prime_index] = (@ - 1) % 256 ]
    ELSE st

\* a pass that leaves isogeny_count alone
PrimeStep_NoCount(st, prime_index, kernels) ==
    [ st EXCEPT !.batch_masks[st.cur_batch] = @ \ {prime_index} ]

\* one pass of the loop over the primes, for a prime of the batch; kernels
\* is the set of primes whose k is non-zero
PrimeStep(st, prime_index, kernels) ==
    LET cur_exp == st.blinding[prime_index]
        cleared == [ st EXCEPT !.batch_masks[st.cur_batch] = @ \ {prime_index} ]
        update == 1 - 2 * sign_bit(cur_exp)
    IN IF prime_index \in kernels
       THEN [ cleared EXCEPT
                !.e[prime_index] = @ + update * is_non_zero(cur_exp),
                !.blinding[prime_index] = @ - update * is_non_zero(cur_exp),
                !.isogeny_count[prime_index] = (@ - 1) % 256 ]
       ELSE cleared

\* for prime_index in (0..NUM_PRIMES).rev()
RECURSIVE PrimeLoop(_, _, _)
PrimeLoop(st, prime_index, kernels) ==
    IF prime_index < 0 THEN st
    ELSE IF prime_index \notin st.batch_masks[st.cur_batch]
         THEN PrimeLoop(st, prime_index - 1, kernels)
    ELSE PrimeLoop(PrimeStep(st, prime_index, kernels), prime_index - 1, kernels)

\* a body whose new mask holds every prime of the batch, whatever its count
Body_AllOfBatch(st, kernels) ==
    LET after == PrimeLoop(st, NUM_PRIMES - 1, kernels)
        mask == { q \in Primes : q % NUM_BATCHES = after.cur_batch }
    IN [ after EXCEPT !.batch_masks[after.cur_batch] = @ \cup mask,
                      !.done[after.cur_batch] = (mask = {}),
                      !.cur_batch = (after.cur_batch + 1) % NUM_BATCHES,
                      !.i = after.i + 1 ]

\* the body of one iteration after its head: the loop over the primes, the
\* new mask of the batch, done, the next batch
Body(st, kernels) ==
    LET after == PrimeLoop(st, NUM_PRIMES - 1, kernels)
        mask == { q \in Primes : q % NUM_BATCHES = after.cur_batch
                                 /\ after.isogeny_count[q] # 0 }
    IN [ after EXCEPT !.batch_masks[after.cur_batch] = @ \cup mask,
                      !.done[after.cur_batch] = (mask = {}),
                      !.cur_batch = (after.cur_batch + 1) % NUM_BATCHES,
                      !.i = after.i + 1 ]

\* the operations of one iteration that an observer of the operation
\* sequence sees: per prime of the batch, in the order of the loop, whether
\* the isogeny is evaluated
RECURSIVE Ops(_, _, _)
Ops(st, prime_index, kernels) ==
    IF prime_index < 0 THEN <<>>
    ELSE IF prime_index \notin st.batch_masks[st.cur_batch]
         THEN Ops(st, prime_index - 1, kernels)
    ELSE <<<<prime_index, prime_index \in kernels>>>>
            \o Ops(st, prime_index - 1, kernels)

NoRun == AfterBlind([ q \in Primes |-> 0 ], [ q \in Primes |-> 0 ],
                    [ q \in Primes |-> 0 ])

-----------------------------------------------------------------------------
(* The action scenario: one call of one_time_blinded_action                 *)

OtInit == ot = [ pc |-> "start", start |-> [ q \in Primes |-> 0 ], st |-> NoRun ]

\* the blind step, the variable-time action and the set-up of the loop
OtBlind ==
    /\ ot.pc = "start"
    /\ \E in \in ActionInputs, b \in [Primes -> BlindVals] :
         ot' = [ pc |-> "loop", start |-> in.curve,
                 st |-> AfterBlind(in.exps, in.curve, b) ]
    /\ UNCHANGED <<mk, sg, xof, lk, cm, fa>>

\* one iteration of the loop, for some outcome of the point sampling
OtIterate ==
    /\ ot.pc = "loop"
    /\ ~Returns(ot.st)
    /\ ot.st.i < MaxIter
    /\ \E kernels \in { KernelSet(Enter(ot.st), sample) :
                            sample \in Samples(Enter(ot.st)) } :
         ot' = [ ot EXCEPT !.st = Body(Enter(ot.st), kernels) ]
    /\ UNCHANGED <<mk, sg, xof, lk, cm, fa>>

\* return e
OtReturn ==
    /\ ot.pc = "loop"
    /\ Returns(ot.st)
    /\ ot' = [ ot EXCEPT !.pc = "returned" ]
    /\ UNCHANGED <<mk, sg, xof, lk, cm, fa>>

\* the blinding draws of the fair scenario: in each, a zero, a positive and a
\* negative value, the extreme values among them
FairDraws ==
    { [ q \in Primes |-> ((q + k) % (2 * BLIND_MAX_EXP + 1)) - BLIND_MAX_EXP ] :
        k \in 1..NumDraws }

\* the blind step, the variable-time action and the set-up of the loop, for
\* the draws of the fair scenario
OtBlindFew ==
    /\ ot.pc = "start"
    /\ \E in \in ActionInputs, b \in FairDraws :
         ot' = [ pc |-> "loop", start |-> in.curve,
                 st |-> AfterBlind(in.exps, in.curve, b) ]
    /\ UNCHANGED <<mk, sg, xof, lk, cm, fa>>

\* the loop counter i is only ever compared with MERGE_AFTER * NUM_BATCHES
\* (line 193): every value above it is kept as the first such value
Saturate(st) ==
    [ st EXCEPT !.i = Min(@, MERGE_AFTER * NUM_BATCHES + 1) ]

\* the outcomes of the point sampling of an iteration entered in state st:
\* the sets of primes whose kernel point is non-zero
Kernels(st) ==
    { KernelSet(st, sample) : sample \in Samples(st) }

\* one iteration of the loop, entered in state st, in which the kernel points
\* of the primes in kernels are non-zero
OtStepWith(st, kernels) ==
    /\ \E after \in { Body(st, kernels) } :
         ot' = [ ot EXCEPT !.st = Saturate(after) ]
    /\ UNCHANGED <<mk, sg, xof, lk, cm, fa>>

\* one iteration of the loop, followed for any number of iterations
OtStep ==
    /\ ot.pc = "loop"
    /\ ~Returns(ot.st)
    /\ \E st \in { Enter(ot.st) } :
         \E kernels \in Kernels(st) : OtStepWith(st, kernels)

\* an iteration in which the sampling gives index q a non-zero kernel point
OtAttempt(q) ==
    /\ ot.pc = "loop"
    /\ ~Returns(ot.st)
    /\ \E st \in { Enter(ot.st) } :
         \E kernels \in Kernels(st) : q \in kernels /\ OtStepWith(st, kernels)

-----------------------------------------------------------------------------
(* The two-run scenario: two calls of one_time_blinded_action on the same   *)
(* input that differ in the blinding and see the same sampled points        *)

\* the pairs of blinding draws of the two runs: the same value in every
\* coordinate, and in the second run another value in one coordinate
DrawPairs ==
    { <<[ q \in Primes |-> v ], [ q \in Primes |-> IF q = r THEN w ELSE v ]>> :
        v \in BlindVals, w \in BlindVals, r \in Primes }

LkInit == lk = [ pc |-> "start", a |-> NoRun, b |-> NoRun, same |-> TRUE ]

\* the blind step of both runs
LkBlind ==
    /\ lk.pc = "start"
    /\ \E in \in ActionInputs, draws \in DrawPairs :
         lk' = [ lk EXCEPT !.pc = "loop",
                           !.a = AfterBlind(in.exps, in.curve, draws[1]),
                           !.b = AfterBlind(in.exps, in.curve, draws[2]) ]
    /\ UNCHANGED <<mk, sg, xof, ot, cm, fa>>

\* one iteration of both runs on the same sampled points; same records
\* whether the two runs have executed the same operations so far
LkIterate ==
    /\ lk.pc = "loop"
    /\ lk.same
    /\ ~Returns(lk.a) /\ ~Returns(lk.b)
    /\ lk.a.i < MaxIter
    /\ LET a == Enter(lk.a)
           b == Enter(lk.b)
       IN \E k \in { <<KernelSet(a, sample), KernelSet(b, sample)>> :
                       sample \in Samples(a) } :
            lk' = [ lk EXCEPT
                      !.a = Body(a, k[1]),
                      !.b = Body(b, k[2]),
                      !.same = /\ a.cur_batch = b.cur_batch
                               /\ Ops(a, NUM_PRIMES - 1, k[1])
                                    = Ops(b, NUM_PRIMES - 1, k[2]) ]
    /\ UNCHANGED <<mk, sg, xof, ot, cm, fa>>

\* a run returns; the runs differ if the other goes on
LkReturn ==
    /\ lk.pc = "loop"
    /\ lk.same
    /\ Returns(lk.a) \/ Returns(lk.b)
    /\ lk' = [ lk EXCEPT !.pc = "returned",
                         !.same = (Returns(lk.a) = Returns(lk.b)) ]
    /\ UNCHANGED <<mk, sg, xof, ot, cm, fa>>

-----------------------------------------------------------------------------
(* The two-order scenario: the test constant_time_action applies two short  *)
(* exponent vectors g1, g2 to the base curve with one_time_blinded_action,  *)
(* g1 then g2 and g2 then g1, and compares the two curves; try_sign relies  *)
(* on the action of a sum being the action of the summands one by one      *)

\* a test whose every call starts from the base curve
CmCurve_Base(c) == [ q \in Primes |-> 0 ]

\* the curve a call of the test starts from, the calls being in their order
\*   1: g1 on E0      2: g2 on the curve of call 1
\*   3: g2 on E0      4: g1 on the curve of call 3
CmCurve(c) ==
    IF c.call \in {1, 3} THEN [ q \in Primes |-> 0 ] ELSE c.out[c.call - 1]

CmInit ==
    cm = [ pc |-> "start", g |-> <<>>, call |-> 1, st |-> NoRun,
           out |-> [ n \in 1..4 |-> [ q \in Primes |-> 0 ] ],
           sum_first |-> BASE_CURVE, one_by_one |-> BASE_CURVE ]

\* the two exponent vectors of the test, and two class-group elements x, y
\* with the curves (x + y) * E0 and x * (y * E0)
CmChoose ==
    /\ cm.pc = "start"
    /\ \E in1 \in ActionInputs, in2 \in ActionInputs,
          x \in ClassGroup, y \in ClassGroup :
         /\ in1.exps # in2.exps
         /\ cm' = [ cm EXCEPT !.pc = "blind", !.g = <<in1.exps, in2.exps>>,
                             !.sum_first = Act(cg_add(x, y), BASE_CURVE),
                             !.one_by_one = Act(x, Act(y, BASE_CURVE)) ]
    /\ UNCHANGED <<mk, sg, xof, ot, lk, fa>>

\* the blind step of the current call
CmBlind ==
    /\ cm.pc = "blind"
    /\ \E a \in 0..4 :
         LET b == [ q \in Primes |-> ((a + q) % 5) - BLIND_MAX_EXP ]
             exps == IF cm.call \in {1, 4} THEN cm.g[1] ELSE cm.g[2]
         IN cm' = [ cm EXCEPT !.pc = "loop",
                              !.st = AfterBlind(exps, CmCurve(cm), b) ]
    /\ UNCHANGED <<mk, sg, xof, ot, lk, fa>>

\* one iteration of the loop of the current call
CmIterate ==
    /\ cm.pc = "loop"
    /\ ~Returns(cm.st)
    /\ cm.st.i < MaxIter
    /\ \E kernels \in { KernelSet(Enter(cm.st), sample) :
                            sample \in Samples(Enter(cm.st)) } :
         cm' = [ cm EXCEPT !.st = Body(Enter(cm.st), kernels) ]
    /\ UNCHANGED <<mk, sg, xof, ot, lk, fa>>

\* the current call returns its curve; the next call starts, or the test
\* compares
CmReturn ==
    /\ cm.pc = "loop"
    /\ Returns(cm.st)
    /\ cm' = [ cm EXCEPT !.out[cm.call] = cm.st.e,
                         !.pc = IF cm.call = 4 THEN "compared" ELSE "blind",
                         !.call = IF cm.call = 4 THEN 4 ELSE cm.call + 1 ]
    /\ UNCHANGED <<mk, sg, xof, ot, lk, fa>>

-----------------------------------------------------------------------------
(* field_arithmetic/helpers.rs, base_field.rs, classgroup.rs: the limb      *)
(* arithmetic.  A word has WordBits bits and a byte ByteBits; a limb array  *)
(* is a function on 0..k-1, least significant word first.  A FieldElement  *)
(* has LIMBS words and holds a * R mod p (Montgomery form) with            *)
(* R = 2^(WordBits * LIMBS); p = 4 * 5 - 1 has the shape of the CSIDH prime  *)
(* and is one bit shorter than R.  A ClassGroupElement has CG_LIMBS words  *)
(* and holds x mod N, N below R / 2.                                       *)

WordBits == 2

ByteBits == 1

LIMBS == 3

CG_LIMBS == 3

\* -p^-1 mod 2^WordBits
INV == 1

\* the limb array, of k words, of an integer
to_limbs(n, k) ==
    LET RECURSIVE limbs(_)
        limbs(i) ==
            IF i = 0 THEN 0 :> n % Pow2(WordBits)
            ELSE limbs(i - 1) @@ (i :> (n \div Pow2(WordBits * i)) % Pow2(WordBits))
    IN limbs(k - 1)

\* the integer that a limb array holds
limb_value(x) ==
    LET RECURSIVE Value(_)
        Value(n) == IF n = 0 THEN 0
                    ELSE x[n - 1] * Pow2(WordBits * (n - 1)) + Value(n - 1)
    IN Value(Cardinality(DOMAIN x))

PRIME == to_limbs(19, LIMBS)

\* R mod p and R^3 mod p
ONE_MONTGOMERY == to_limbs(Pow2(WordBits * LIMBS) % limb_value(PRIME), LIMBS)

R3_MONTGOMERY == to_limbs((Pow2(WordBits * LIMBS) ^ 3) % limb_value(PRIME), LIMBS)

CLASSGROUP_ORDER == to_limbs(29, CG_LIMBS)

\* a & b of two integers of n bits
RECURSIVE BitAnd(_, _, _)
BitAnd(a, b, n) ==
    IF n = 0 THEN 0
    ELSE (a % 2) * (b % 2) + 2 * BitAnd(a \div 2, b \div 2, n - 1)

\* ca: <<sum, carry>>, computed in a double word
ca(x, rhs, carry) ==
    LET r == x + rhs + carry
    IN <<r % Pow2(WordBits), r \div Pow2(WordBits)>>

\* cs: <<difference, borrow>>, the wrapping difference of a double word and
\* the top bit of its high word
cs(x, rhs, carry) ==
    LET r == (x - rhs - carry) % Pow2(2 * WordBits)
    IN <<r % Pow2(WordBits), r \div Pow2(2 * WordBits - 1)>>

\* <<hi, lo>> of x * rhs + add1 + add2
wide_mul_sum2(x, rhs, add1, add2) ==
    LET wide == x * rhs + add1 + add2
    IN <<wide \div Pow2(WordBits), wide % Pow2(WordBits)>>

\* r |= item over the limbs, then ct_is_non_zero64(r) == 0
is_zero(x) ==
    LET or(a, b) == a + b - BitAnd(a, b, WordBits)
        RECURSIVE OrAll(_)
        OrAll(n) == IF n = 0 THEN 0 ELSE or(x[n - 1], OrAll(n - 1))
        ct_is_non_zero64(i) ==
            or(i, Pow2(WordBits) - 1 - ((i - 1) % Pow2(WordBits)))
                \div Pow2(WordBits - 1)
    IN ct_is_non_zero64(OrAll(Cardinality(DOMAIN x))) = 0

\* the chain (r[i], c) = x[i].ca(y[i], c) over the limbs from i on: <<r, c>>
RECURSIVE ca_chain(_, _, _, _, _)
ca_chain(x, y, c, i, r) ==
    IF i \notin DOMAIN r THEN <<r, c>>
    ELSE LET s == ca(x[i], y[i], c)
         IN ca_chain(x, y, s[2], i + 1, [ r EXCEPT ![i] = s[1] ])

\* the chain (r[i], c) = x[i].cs(y[i], c) over the limbs from i on: <<r, c>>
RECURSIVE cs_chain(_, _, _, _, _)
cs_chain(x, y, c, i, r) ==
    IF i \notin DOMAIN r THEN <<r, c>>
    ELSE LET s == cs(x[i], y[i], c)
         IN cs_chain(x, y, s[2], i + 1, [ r EXCEPT ![i] = s[1] ])

\* a conditional move that moves r to t whatever c is
cmovz_array_Always(c, t, r) == r

\* moves r to t if c is zero: the mask form, m = ((c | -c) >> top) & 1 and
\* mask = (1 ^ m) - 1; the result is the new t
cmovz_array(c, t, r) ==
    LET W == Pow2(WordBits)
        and(a, b) == BitAnd(a, b, WordBits)
        or(a, b) == a + b - and(a, b)
        m == and(or(c, (W - 1 - c + 1) % W) \div Pow2(WordBits - 1), 1)
        mask == ((1 + m - 2 * and(1, m)) - 1) % W
        RECURSIVE loop(_, _)
        loop(i, out) ==
            IF i \notin DOMAIN out THEN out
            ELSE loop(i + 1, [ out EXCEPT ![i] = or(and(t[i], mask),
                                                    and(r[i], W - 1 - mask)) ])
    IN loop(0, t)

\* the new self
conditional_move(self, do_move, b) == cmovz_array(1 - do_move, self, b)

\* the new <<self, b>>: cmovz_swap(1 - do_swap, self, b)
conditional_swap(self, do_swap, b) ==
    LET W == Pow2(WordBits)
        and(x, y) == BitAnd(x, y, WordBits)
        or(x, y) == x + y - and(x, y)
        cmovz_swap(c, t, r) ==
            LET m == and(or(c, (W - 1 - c + 1) % W) \div Pow2(WordBits - 1), 1)
                mask == ((1 + m - 2 * and(1, m)) - 1) % W
                RECURSIVE loop(_, _)
                loop(i, out) ==
                    IF i \notin DOMAIN out[1] THEN out
                    ELSE loop(i + 1,
                              << [ out[1] EXCEPT ![i] = or(and(t[i], mask),
                                                           and(r[i], W - 1 - mask)) ],
                                 [ out[2] EXCEPT ![i] = or(and(r[i], mask),
                                                           and(t[i], W - 1 - mask)) ] >>)
            IN loop(0, <<t, r>>)
    IN cmovz_swap(1 - do_swap, self, b)

\* x + y, the carry of the top limb dropped, then minus MODULUS unless that
\* borrows
add_reduce(MODULUS, x, y) ==
    LET zero == to_limbs(0, Cardinality(DOMAIN x))
        r == ca_chain(x, y, 0, 0, zero)[1]
        s == cs_chain(r, MODULUS, 0, 0, zero)
    IN cmovz_array(s[2], r, s[1])

\* x - y, then plus MODULUS under the mask w of the borrow
sub_reduce(MODULUS, x, y) ==
    LET zero == to_limbs(0, Cardinality(DOMAIN x))
        W == Pow2(WordBits)
        s == cs_chain(x, y, 0, 0, zero)
        w == ((1 - s[2]) - 1) % W
        ct_pick64(which, in1, in2) ==
            LET a == BitAnd(in1, which, WordBits)
                b == BitAnd(in2, W - 1 - which, WordBits)
            IN a + b - BitAnd(a, b, WordBits)
    IN ca_chain(s[1], [ i \in DOMAIN x |-> ct_pick64(w, MODULUS[i], 0) ],
                0, 0, zero)[1]

neg(MODULUS, x) == sub_reduce(MODULUS, MODULUS, x)

\* the loop of montgomery_mul: [t, overflow], overflow recording whether a
\* carry.unchecked_add(high) left the word
montgomery_mul_loop(lhs, rhs) ==
    LET W == Pow2(WordBits)
        wide_mul_sum(x, y, add1) == wide_mul_sum2(x, y, add1, 0)
        RECURSIVE inner(_, _, _)
        inner(i, m, st) ==
            IF st.j = LIMBS THEN st
            ELSE LET a == wide_mul_sum2(lhs[st.j], rhs[i], st.high, st.t[st.j])
                     b == wide_mul_sum2(m, PRIME[st.j], st.carry, a[2])
                 IN inner(i, m,
                          [ j |-> st.j + 1,
                            t |-> [ st.t EXCEPT ![st.j] = a[2], ![st.j - 1] = b[2] ],
                            high |-> a[1], carry |-> b[1] ])
        RECURSIVE outer(_)
        outer(st) ==
            IF st.i = LIMBS THEN st
            ELSE LET first == wide_mul_sum(lhs[0], rhs[st.i], st.t[0])
                     m == (first[2] * INV) % W
                     carry == wide_mul_sum(m, PRIME[0], first[2])[1]
                     in == inner(st.i, m, [ j |-> 1,
                                            t |-> [ st.t EXCEPT ![0] = first[2] ],
                                            high |-> first[1], carry |-> carry ])
                 IN outer([ i |-> st.i + 1,
                            t |-> [ in.t EXCEPT ![LIMBS - 1] = (in.carry + in.high) % W ],
                            overflow |-> st.overflow \/ in.carry + in.high >= W ])
    IN outer([ i |-> 0, t |-> to_limbs(0, LIMBS), overflow |-> FALSE ])

\* a multiplication without the final subtraction of p
montgomery_mul_NoReduce(lhs, rhs) == montgomery_mul_loop(lhs, rhs).t

montgomery_mul(lhs, rhs) ==
    LET t == montgomery_mul_loop(lhs, rhs).t
        s == cs_chain(t, PRIME, 0, 0, to_limbs(0, LIMBS))
    IN cmovz_array(s[2], t, s[1])

\* r is the double array: the products a[i] * a[j] for i < j, their shift by
\* one bit, the squares a[i] * a[i], the reduction, the subtraction of p
montgomery_square(a) ==
    LET W == Pow2(WordBits)
        top_bit(x) == x \div Pow2(WordBits - 1)
        or(x, y) == x + y - BitAnd(x, y, WordBits)
        RECURSIVE cross(_)
        cross(st) ==
            IF st.i = LIMBS - 1 THEN st.r
            ELSE IF st.j = LIMBS
                 THEN cross([ i |-> st.i + 1, j |-> st.i + 2, carry |-> 0,
                              r |-> [ st.r EXCEPT ![st.i + LIMBS] = st.carry ] ])
            ELSE LET s == wide_mul_sum2(a[st.i], a[st.j], st.r[st.i + st.j], st.carry)
                 IN cross([ i |-> st.i, j |-> st.j + 1, carry |-> s[1],
                            r |-> [ st.r EXCEPT ![st.i + st.j] = s[2] ] ])
        RECURSIVE shift(_)
        shift(st) ==
            IF st.i = 2 * LIMBS - 1 THEN st.r
            ELSE shift([ i |-> st.i + 1,
                         r |-> [ st.r EXCEPT ![2 * LIMBS - st.i] =
                                   or((st.r[2 * LIMBS - st.i] * 2) % W,
                                      top_bit(st.r[2 * LIMBS - 1 - st.i])) ] ])
        double(r) ==
            LET mid == shift([ i |-> 2,
                               r |-> [ r EXCEPT ![2 * LIMBS - 1] =
                                         top_bit(r[2 * LIMBS - 2]) ] ])
            IN [ mid EXCEPT ![1] = (mid[1] * 2) % W ]
        RECURSIVE diag(_)
        diag(st) ==
            IF st.i = LIMBS THEN st.r
            ELSE LET s == wide_mul_sum2(a[st.i], a[st.i], st.r[2 * st.i], st.carry)
                     tmp == st.r[2 * st.i + 1] + s[1]
                 IN diag([ i |-> st.i + 1, carry |-> tmp \div W,
                           r |-> [ st.r EXCEPT ![2 * st.i] = s[2],
                                               ![2 * st.i + 1] = tmp % W ] ])
        RECURSIVE red_inner(_, _, _)
        red_inner(k, i, st) ==
            IF st.j = LIMBS THEN st
            ELSE LET s == wide_mul_sum2(k, PRIME[st.j], st.r[st.j + i], st.carry)
                 IN red_inner(k, i, [ j |-> st.j + 1, carry |-> s[1],
                                      r |-> [ st.r EXCEPT ![st.j + i] = s[2] ] ])
        RECURSIVE reduce(_)
        reduce(st) ==
            IF st.i = LIMBS THEN st.r
            ELSE LET k == (st.r[st.i] * INV) % W
                     carry == wide_mul_sum2(PRIME[0], k, st.r[st.i], 0)[1]
                     in == red_inner(k, st.i, [ j |-> 1, carry |-> carry, r |-> st.r ])
                     tmp == in.r[st.i + LIMBS] + in.carry + st.carry2
                 IN reduce([ i |-> st.i + 1, carry2 |-> tmp \div W,
                             r |-> [ in.r EXCEPT ![st.i + LIMBS] = tmp % W ] ])
        r1 == cross([ i |-> 0, j |-> 1, carry |-> 0, r |-> to_limbs(0, 2 * LIMBS) ])
        r3 == diag([ i |-> 0, carry |-> 0, r |-> double(r1) ])
        r4 == reduce([ i |-> 0, carry2 |-> 0, r |-> r3 ])
        t == to_limbs(limb_value(r4) \div Pow2(WordBits * LIMBS), LIMBS)
        s == cs_chain(t, PRIME, 0, 0, to_limbs(0, LIMBS))
    IN cmovz_array(s[2], t, s[1])

\* the exponents of constant_time_bounded_exp are below 2^ExpBits
ExpBits == 3

\* the width of pow
PowBits == 4

\* for i in 0..(ExpBits + 1), with the break at i = last; done is
\* (pow | !pow.wrapping_sub(1)) >> (PowBits - 1)
RECURSIVE exp_loop(_, _)
exp_loop(last, st) ==
    IF st.i = ExpBits + 1 THEN st
    ELSE LET not_sub == Pow2(PowBits) - 1 - ((st.pow - 1) % Pow2(PowBits))
             done == (st.pow + not_sub - BitAnd(st.pow, not_sub, PowBits))
                         \div Pow2(PowBits - 1)
             res == conditional_move(st.res, 1 - done, st.tmp)
         IN IF st.i = last
            THEN [ st EXCEPT !.res = res, !.rounds = @ + 1 ]
            ELSE exp_loop(last,
                   [ i |-> st.i + 1,
                     pow |-> st.pow \div 2,
                     this |-> montgomery_square(st.this),
                     tmp |-> conditional_move(st.tmp, st.pow % 2,
                                              montgomery_mul(st.tmp, st.this)),
                     res |-> res,
                     rounds |-> st.rounds + 1 ])

\* a loop that breaks one round early
constant_time_bounded_exp_Short(self, pow) ==
    exp_loop(ExpBits - 1, [ i |-> 0, pow |-> pow, this |-> self, tmp |-> ONE_MONTGOMERY,
                            res |-> ONE_MONTGOMERY, rounds |-> 0 ])

\* the state at the return: res and the number of rounds of the loop
constant_time_bounded_exp(self, pow) ==
    exp_loop(ExpBits, [ i |-> 0, pow |-> pow, this |-> self, tmp |-> ONE_MONTGOMERY,
                        res |-> ONE_MONTGOMERY, rounds |-> 0 ])

\* while n != 0, on the state n, this, result
vartime_exp(self, pow) ==
    LET RECURSIVE loop(_)
        loop(st) ==
            IF st.n = 0 THEN st.result
            ELSE loop([ n |-> st.n \div 2,
                        this |-> montgomery_square(st.this),
                        result |-> IF st.n % 2 = 1
                                   THEN montgomery_mul(st.result, st.this)
                                   ELSE st.result ])
    IN loop([ n |-> pow, this |-> self, result |-> ONE_MONTGOMERY ])

\* the external modinv (s2n-bignum): the inverse of the limbs modulo p when
\* they are coprime with p, and no defined output when they are not
modinv(a) ==
    LET p == limb_value(PRIME)
    IN IF limb_value(a) % p = 0 THEN { to_limbs(n, LIMBS) : n \in 0..(p - 1) }
       ELSE { to_limbs(CHOOSE n \in 1..(p - 1) : (n * limb_value(a)) % p = 1, LIMBS) }

\* an inverse that is not lifted back into Montgomery form
inv_NoLift(self) ==
    { [ value |-> result, is_some |-> ~is_zero(self) ] : result \in modinv(self) }

\* the CtOption values that inv can return
inv(self) ==
    { [ value |-> montgomery_mul(result, R3_MONTGOMERY), is_some |-> ~is_zero(self) ] :
        result \in modinv(self) }

\* Point::normalize, res being the CtOption that self.z.inv() returned
normalize(point, res) ==
    IF res.is_some
    THEN [ x |-> montgomery_mul(point.x, res.value), z |-> ONE_MONTGOMERY ]
    ELSE [ x |-> ONE_MONTGOMERY, z |-> to_limbs(0, LIMBS) ]

\* get_standard().iter().flat_map(|x| x.to_be_bytes()): the limbs in the
\* order of the array, each as the bytes of its word, most significant first
get_be_bytes(self) ==
    LET per == WordBits \div ByteBits
        standard == montgomery_mul(self, to_limbs(1, LIMBS))
    IN [ n \in 1..(LIMBS * per) |->
           (standard[(n - 1) \div per]
               \div Pow2(ByteBits * (per - 1 - ((n - 1) % per)))) % Pow2(ByteBits) ]

\* FieldElement::from_be_bytes: the words of the full chunks of b, then
\* v[..LIMBS] as the limbs of Ok; "Panic" when the slice index is out of range
FieldElement_from_be_bytes(b) ==
    LET per == WordBits \div ByteBits
        RECURSIVE word(_, _)
        word(chunk, k) ==
            IF k = 0 THEN 0
            ELSE word(chunk, k - 1) * Pow2(ByteBits) + b[chunk * per + k]
        v == [ chunk \in 0..((Len(b) \div per) - 1) |-> word(chunk, per) ]
    IN IF Len(b) \div per < LIMBS
       THEN [ res |-> "Panic", limbs |-> to_limbs(0, LIMBS) ]
       ELSE [ res |-> "Ok", limbs |-> [ i \in 0..(LIMBS - 1) |-> v[i] ] ]

-----------------------------------------------------------------------------
(* lattice.rs: reduce.  The class group is cyclic of order N, generated by  *)
(* g_1, and g_i = g_1^DLOG[i]; an exponent vector e stands for the element *)
(* sum of e[i] * DLOG[i] mod N.  The constants are a basis of the lattice  *)
(* of the relations, its Gram-Schmidt vectors scaled to integers with      *)
(* their scaled norms, and a pool of short relations; vectors are          *)
(* sequences of NUM_PRIMES entries.                                        *)

LatticeConstants ==
    [ DLOG |-> <<1, 3, 7, 12>>,
      BASIS |-> << <<-1, -2, 1, 0>>, <<0, -1, -2, -1>>,
                   <<-3, 1, 0, 0>>, <<-2, -1, -1, 1>> >>,
      ORTHO_BASIS |-> << <<-1, -2, 1, 0>>, <<0, -1, -2, -1>>,
                         <<-17, 7, -3, -1>>, <<-1, -3, -7, 17>> >>,
      ORTHO_NORMS |-> <<6, 6, 58, 29>>,
      POOL |-> << <<0, 0, -1, 3>>, <<-1, 1, -2, 1>>, <<-1, 2, 1, -1>> >>,
      pool_size |-> 2 ]

\* a sum that is off by one in its first entry
add_slice_OffByOne(a, b) ==
    LET RECURSIVE loop(_)
        loop(idx) == IF idx = 0 THEN << >>
                     ELSE Append(loop(idx - 1),
                                 a[idx] + b[idx] + (IF idx = 1 THEN 1 ELSE 0))
    IN loop(NUM_PRIMES)

add_slice(a, b) ==
    LET RECURSIVE loop(_)
        loop(idx) == IF idx = 0 THEN << >>
                     ELSE Append(loop(idx - 1), a[idx] + b[idx])
    IN loop(NUM_PRIMES)

sub_slice(a, b) ==
    LET RECURSIVE loop(_)
        loop(idx) == IF idx = 0 THEN << >>
                     ELSE Append(loop(idx - 1), a[idx] - b[idx])
    IN loop(NUM_PRIMES)

l1(a) ==
    LET RECURSIVE fold(_)
        fold(n) == IF n = 0 THEN 0
                   ELSE fold(n - 1) + (IF a[n] < 0 THEN 0 - a[n] ELSE a[n])
    IN fold(NUM_PRIMES)

\* a loop body that tries the sum only
dlw_try_SumOnly(st) ==
    LET sum == add_slice(st.e_prime, LatticeConstants.POOL[st.idx])
    IN IF l1(sum) < st.best_norm
       THEN [ st EXCEPT !.e_prime = sum, !.best_norm = l1(sum),
                        !.stalled = FALSE, !.idx = @ + 1 ]
       ELSE [ st EXCEPT !.idx = @ + 1 ]

\* the body of `for idx in 0..pool_size`, for the pool vector st.idx
dlw_try(st) ==
    LET pool == LatticeConstants.POOL[st.idx]
        diff == sub_slice(st.e_prime, pool)
        sum == add_slice(st.e_prime, pool)
        l1diff == l1(diff)
        l1sum == l1(sum)
        up == IF l1sum < st.best_norm
              THEN [ st EXCEPT !.e_prime = sum, !.best_norm = l1sum,
                               !.stalled = FALSE ]
              ELSE st
        down == IF l1diff < up.best_norm
                THEN [ up EXCEPT !.e_prime = diff, !.best_norm = l1diff,
                                 !.stalled = FALSE ]
                ELSE up
    IN [ down EXCEPT !.idx = @ + 1 ]

\* for idx in 0..pool_size: one scan of the first pool_size vectors of the
\* pool, from the vector st.idx on
RECURSIVE dlw_scan(_, _)
dlw_scan(st, pool_size) ==
    IF st.idx > pool_size THEN st
    ELSE dlw_scan(dlw_try(st), pool_size)

\* the state of dlw_reduce before its while loop
dlw_enter(e) ==
    [ e_prime |-> e, best_norm |-> l1(e), stalled |-> FALSE, idx |-> 1 ]

\* while !stalled { stalled = true; one scan }
dlw_reduce(e, pool_size) ==
    LET RECURSIVE while(_)
        while(st) ==
            IF st.stalled THEN st.e_prime
            ELSE while(dlw_scan([ st EXCEPT !.stalled = TRUE, !.idx = 1 ],
                                pool_size))
    IN while(dlw_enter(e))

\* the loop over the basis of reduce and reduce_one_round: b = (x, 0, ..., 0)
\* minus, from the last row down, c times the row, c being the quotient
\* dot(b, row) / ORTHO_NORMS[row] rounded to the nearest integer, ties to even
nearest_plane(x) ==
    LET dot(b, basis_idx) ==
            LET RECURSIVE fold(_)
                fold(n) == IF n = 0 THEN 0
                           ELSE fold(n - 1)
                                  + LatticeConstants.ORTHO_BASIS[basis_idx][n] * b[n]
            IN fold(NUM_PRIMES)
        round(num, den) ==
            LET q == num \div den
                r == num - q * den
            IN IF 2 * r < den THEN q
               ELSE IF 2 * r > den THEN q + 1
               ELSE IF q % 2 = 0 THEN q ELSE q + 1
        RECURSIVE minus(_, _, _, _)
        minus(b, c, slice, dim_idx) ==
            IF dim_idx = 0 THEN << >>
            ELSE Append(minus(b, c, slice, dim_idx - 1),
                        b[dim_idx] - c * slice[dim_idx])
        RECURSIVE rows(_)
        rows(st) ==
            IF st.basis_idx = 0 THEN st.b
            ELSE LET c == round(dot(st.b, st.basis_idx),
                                LatticeConstants.ORTHO_NORMS[st.basis_idx])
                 IN rows([ basis_idx |-> st.basis_idx - 1,
                           b |-> minus(st.b, c, LatticeConstants.BASIS[st.basis_idx],
                                       NUM_PRIMES) ])
    IN rows([ basis_idx |-> NUM_PRIMES,
              b |-> [ dim_idx \in 1..NUM_PRIMES |-> IF dim_idx = 1 THEN x ELSE 0 ] ])

\* reduce_one_round: the descent from the nearest-plane vector
reduce_one_round(x) == dlw_reduce(nearest_plane(x), LatticeConstants.pool_size)

\* reduce, ridx[n] being the two pool indices drawn in restart n: the vector
\* after each stage and the vector returned
reduce(x, ridx) ==
    LET RECURSIVE restart(_)
        restart(st) ==
            IF st.n > 2 THEN st
            ELSE LET shifted == add_slice(add_slice(st.e_prime,
                                              LatticeConstants.POOL[ridx[st.n][1]]),
                                          LatticeConstants.POOL[ridx[st.n][2]])
                     t == dlw_reduce(shifted, LatticeConstants.pool_size)
                     norm_t == l1(t)
                 IN restart([ n |-> st.n + 1,
                              e_prime |-> IF norm_t < st.best_len THEN t ELSE st.e_prime,
                              best_len |-> IF norm_t < st.best_len THEN norm_t
                                           ELSE st.best_len,
                              stages |-> st.stages \o <<shifted, t>> ])
        b == nearest_plane(x)
        first == dlw_reduce(b, LatticeConstants.pool_size)
    IN restart([ n |-> 1, e_prime |-> first, best_len |-> l1(first),
                 stages |-> <<b, first>> ])

-----------------------------------------------------------------------------
(* The arithmetic scenario: one call of one function of the limb            *)
(* arithmetic or of the lattice reduction, on inputs of its domain          *)

FaInit == fa = [ pc |-> "idle" ]

\* &a + &b, &a - &b, a.neg(), &a * &b, a.square() on field elements
FaArith ==
    /\ fa.pc = "idle"
    /\ LET Canonical == { to_limbs(n, LIMBS) : n \in 0..(limb_value(PRIME) - 1) }
       IN \E op \in {"add", "sub", "neg", "mul", "square"},
             a \in Canonical, b \in Canonical :
            /\ op \in {"neg", "square"} => b = a
            /\ fa' = [ pc |-> op, a |-> a, b |-> b,
                       out |-> CASE op = "add" -> add_reduce(PRIME, a, b)
                                 [] op = "sub" -> sub_reduce(PRIME, a, b)
                                 [] op = "neg" -> neg(PRIME, a)
                                 [] op = "mul" -> montgomery_mul(a, b)
                                 [] op = "square" -> montgomery_square(a),
                       overflow |-> op = "mul" /\ montgomery_mul_loop(a, b).overflow ]
    /\ UNCHANGED <<mk, sg, xof, ot, lk, cm>>

\* a.constant_time_bounded_exp(&e) and a.vartime_exp(&e)
FaExp ==
    /\ fa.pc = "idle"
    /\ \E n \in 0..(limb_value(PRIME) - 1), e \in 0..(Pow2(ExpBits) - 1) :
         LET a == to_limbs(n, LIMBS)
         IN fa' = [ pc |-> "exp", a |-> a, e |-> e,
                    out |-> constant_time_bounded_exp(a, e).res,
                    rounds |-> constant_time_bounded_exp(a, e).rounds,
                    vartime |-> vartime_exp(a, e) ]
    /\ UNCHANGED <<mk, sg, xof, ot, lk, cm>>

\* a.inv(), and Point { x, z: a }.normalize()
FaInv ==
    /\ fa.pc = "idle"
    /\ \E n \in 0..(limb_value(PRIME) - 1), m \in 0..(limb_value(PRIME) - 1) :
         \E res \in inv(to_limbs(n, LIMBS)) :
            fa' = [ pc |-> "inv", a |-> to_limbs(n, LIMBS), x |-> to_limbs(m, LIMBS),
                    res |-> res,
                    point |-> normalize([ x |-> to_limbs(m, LIMBS),
                                          z |-> to_limbs(n, LIMBS) ], res) ]
    /\ UNCHANGED <<mk, sg, xof, ot, lk, cm>>

\* a.conditional_move(c, &b) and a.conditional_swap(c, &mut b), on all limb
\* arrays; csel is the move in the aarch64 form of cmovz_array (cmp c, 0 and
\* csel ..., EQ on every limb)
FaMove ==
    /\ fa.pc = "idle"
    /\ \E a \in [ 0..(LIMBS - 1) -> 0..(Pow2(WordBits) - 1) ],
          b \in [ 0..(LIMBS - 1) -> 0..(Pow2(WordBits) - 1) ], c \in {0, 1} :
         fa' = [ pc |-> "move", a |-> a, b |-> b, c |-> c,
                 out |-> conditional_move(a, c, b),
                 csel |-> IF 1 - c = 0 THEN b ELSE a,
                 swapped |-> conditional_swap(a, c, b) ]
    /\ UNCHANGED <<mk, sg, xof, ot, lk, cm>>

\* FieldElement::from_be_bytes(&x.get_be_bytes())
FaRoundTrip ==
    /\ fa.pc = "idle"
    /\ \E n \in 0..(limb_value(PRIME) - 1) :
         LET x == to_limbs(n, LIMBS)
         IN fa' = [ pc |-> "round_trip", a |-> x, bytes |-> get_be_bytes(x),
                    out |-> FieldElement_from_be_bytes(get_be_bytes(x)) ]
    /\ UNCHANGED <<mk, sg, xof, ot, lk, cm>>

\* FieldElement::from_be_bytes(b), which Point::from_be_bytes and
\* MontgomeryCurve::from_be_bytes pass on, for any byte string b
FaFromBytes ==
    /\ fa.pc = "idle"
    /\ \E len \in 0..(LIMBS * (WordBits \div ByteBits) + MaxExtra) :
         \E b \in [ 1..len -> 0..(Pow2(ByteBits) - 1) ] :
            fa' = [ pc |-> "from_bytes", bytes |-> b,
                    out |-> FieldElement_from_be_bytes(b) ]
    /\ UNCHANGED <<mk, sg, xof, ot, lk, cm>>

\* x + y, x - y, x.neg() on class-group elements
CgArith ==
    /\ fa.pc = "idle"
    /\ \E op \in {"cg_add", "cg_sub", "cg_neg"},
          n \in 0..(limb_value(CLASSGROUP_ORDER) - 1),
          m \in 0..(limb_value(CLASSGROUP_ORDER) - 1) :
         LET x == to_limbs(n, CG_LIMBS)
             y == to_limbs(m, CG_LIMBS)
         IN /\ op = "cg_neg" => m = n
            /\ fa' = [ pc |-> op, a |-> x, b |-> y,
                       out |-> CASE op = "cg_add" -> add_reduce(CLASSGROUP_ORDER, x, y)
                                 [] op = "cg_sub" -> sub_reduce(CLASSGROUP_ORDER, x, y)
                                 [] op = "cg_neg" -> neg(CLASSGROUP_ORDER, x) ]
    /\ UNCHANGED <<mk, sg, xof, ot, lk, cm>>

\* x.reduce() and x.reduce_one_round(), for the pool indices that the two
\* restarts draw
LtReduce ==
    /\ fa.pc = "idle"
    /\ \E x \in 0..(limb_value(CLASSGROUP_ORDER) - 1),
          ridx \in [ 1..2 -> (1..Len(LatticeConstants.POOL))
                               \X (1..Len(LatticeConstants.POOL)) ] :
         LET r == reduce(x, ridx)
         IN fa' = [ pc |-> "reduce", x |-> x, ridx |-> ridx,
                    stages |-> r.stages, out |-> r.e_prime,
                    one_round |-> reduce_one_round(x) ]
    /\ UNCHANGED <<mk, sg, xof, ot, lk, cm>>

-----------------------------------------------------------------------------
(* The descent scenario: one call of dlw_reduce, one vector of the pool at  *)
(* a time                                                                   *)

\* the vectors dlw_reduce is called with
DescentInputs == [ 1..NUM_PRIMES -> (0 - MaxEntry)..MaxEntry ]

\* the call: e_prime = e, best_norm = l1(e), stalled = false
DlStart ==
    /\ fa.pc = "idle"
    /\ \E e \in DescentInputs, pool_size \in 0..Len(LatticeConstants.POOL) :
         fa' = [ pc |-> "dlw", e |-> e, pool_size |-> pool_size,
                 st |-> dlw_enter(e) ]
    /\ UNCHANGED <<mk, sg, xof, ot, lk, cm>>

\* the head of the while loop when the last scan has changed e_prime:
\* stalled = true, and the scan starts at the first vector of the pool
DlWhile ==
    /\ fa.pc = "dlw"
    /\ ~fa.st.stalled
    /\ fa' = [ fa EXCEPT !.pc = IF fa.pool_size = 0 THEN "dlw" ELSE "scan",
                         !.st = [ fa.st EXCEPT !.stalled = TRUE, !.idx = 1 ] ]
    /\ UNCHANGED <<mk, sg, xof, ot, lk, cm>>

\* one pass of the for loop; after the last vector the while loop is at its
\* head again
DlVector ==
    /\ fa.pc = "scan"
    /\ fa' = [ fa EXCEPT !.pc = IF fa.st.idx = fa.pool_size THEN "dlw" ELSE "scan",
                         !.st = dlw_try(fa.st) ]
    /\ UNCHANGED <<mk, sg, xof, ot, lk, cm>>

\* the head of the while loop when stalled: e_prime is returned
DlReturn ==
    /\ fa.pc = "dlw"
    /\ fa.st.stalled
    /\ fa' = [ fa EXCEPT !.pc = "dlw_done" ]
    /\ UNCHANGED <<mk, sg, xof, ot, lk, cm>>

-----------------------------------------------------------------------------
(* Specifications *)


Init == MkInit /\ SgInit /\ xof = << >> /\ OtInit /\ LkInit /\ CmInit /\ FaInit

\* the Merkle tree used as intended
NextMerkle == MkBuild \/ MkProve \/ MkVerify

SpecMerkle == Init /\ [][NextMerkle]_vars

\* the Merkle tree with one alteration between proof and verification
NextMerkleTamper ==
    \/ MkBuild \/ MkProve \/ MkVerify
    \/ MkTamperLeaf \/ MkTamperRoot \/ MkTamperProofLabel \/ MkTamperProofHash

SpecMerkleTamper == Init /\ [][NextMerkleTamper]_vars

\* the signature scheme used as intended
NextSig == SgGenerate \/ SgSign \/ SgVerify

SpecSig == Init /\ [][NextSig]_vars

\* a signature reaches the verifier altered
NextForge ==
    \/ SgGenerate
    \/ SgSignOnce
    \/ SgTamperChallenge
    \/ SgTamperResponse
    \/ SgTamperCurve
    \/ SgTamperProof
    \/ SgTamperShape
    \/ SgOtherKey
    \/ SgVerify

SpecForge == Init /\ [][NextForge]_vars

\* a signature reaches the verifier with another num_curves field
NextLabel == SgGenerate \/ SgSignOnce \/ SgTamperNumCurves \/ SgVerify

SpecLabel == Init /\ [][NextLabel]_vars

\* one call of one_time_blinded_action
NextAction == OtBlind \/ OtIterate \/ OtReturn

SpecAction == Init /\ [][NextAction]_vars

\* one call of one_time_blinded_action under fair sampling: the call is not
\* suspended for ever, and an index that is in the batch of infinitely many
\* iterations gets a non-zero kernel point in one of them
NextFair == OtBlindFew \/ OtStep \/ OtReturn

FairSampling ==
    /\ WF_vars(OtBlindFew)
    /\ WF_vars(OtReturn)
    /\ \A q \in Primes : SF_vars(OtAttempt(q))

SpecFair == Init /\ [][NextFair]_vars /\ FairSampling

\* one call of dlw_reduce; the loop is sequential code and runs on until it
\* returns
NextDescent == DlStart \/ DlWhile \/ DlVector \/ DlReturn

SpecDescent ==
    Init /\ [][NextDescent]_vars
         /\ WF_vars(DlStart) /\ WF_vars(DlWhile)
         /\ WF_vars(DlVector) /\ WF_vars(DlReturn)

\* two calls side by side
NextLeak == LkBlind \/ LkIterate \/ LkReturn

SpecLeak == Init /\ [][NextLeak]_vars

\* the test constant_time_action
NextCommute == CmChoose \/ CmBlind \/ CmIterate \/ CmReturn

SpecCommute == Init /\ [][NextCommute]_vars

\* one call into the arithmetic
NextArith ==
    \/ FaArith \/ FaExp \/ FaInv \/ FaMove
    \/ FaRoundTrip \/ FaFromBytes \/ CgArith \/ LtReduce

SpecArith == Init /\ [][NextArith]_vars

-----------------------------------------------------------------------------
(* Claims *)

\* the opened indices are pairwise distinct
DistinctIndices(S) == \A i, j \in DOMAIN S : i # j => S[i] # S[j]

\* C6: Merkle completeness.  For every tree built by from_leaves over
\* C = 2^d leaves (d >= 1) and every non-empty list of leaf indices, in any
\* order and with or without repeated indices, the proof returned by
\* proof_from_leaf_indices verifies against the root and the opened leaves.
C6_MerkleCompleteness ==
    (mk.pc = "verified" /\ mk.tamper = "none") => mk.res = "Ok"

\* a proof for an unsorted list with a repeated index has been verified
C6_Witness ==
    /\ mk.pc = "verified" /\ mk.tamper = "none" /\ mk.res = "Ok"
    /\ Len(mk.indices) = 3
    /\ mk.indices[1] > mk.indices[2]
    /\ mk.indices[1] = mk.indices[3]
    /\ TreeDepth(mk.tree) = 2

\* C7: Merkle tamper detection.  After the hash of one opened leaf, the root,
\* or the label or the hash of one proof entry of an honest proof for a
\* non-empty set of indices is replaced, verify returns Err(VerificationFailed).
C7_TamperDetected ==
    (mk.pc = "verified" /\ mk.tamper # "none" /\ DistinctIndices(mk.indices))
        => mk.res = "Err"


\* C1: signature round trip.  Every signature made by try_sign verifies under
\* the verifying key of the signing key, whatever the derived challenges
\* are, also when the key signs repeatedly.
C1_RoundTrip ==
    (sg.pc = "verified" /\ sg.tamper = "none") => sg.res = "Ok"

\* the second signature of a key, with a negative and a positive challenge
\* that open the same curve, has been verified
C1_Witness ==
    /\ sg.pc = "verified" /\ sg.tamper = "none" /\ sg.res = "Ok"
    /\ sg.signs = 2
    /\ Challenges(sg.sig)[1] < 0
    /\ Challenges(sg.sig)[2] > 0
    /\ sg.sig.opened_curves[1] = sg.sig.opened_curves[2]
    /\ sg.sk.secret_actions[1] # sg.sk.secret_actions[2]

\* C2: verify returns Ok only if every challenge recomputed from the
\* re-derived curves and the message equals the challenge carried in the
\* signature, in all R rounds.
C2_OkOnlyIfPointwiseEqual ==
    (sg.pc = "verified" /\ sg.res = "Ok") =>
        /\ Len(sg.sig.challenges) = ROUNDS
        /\ Len(sg.derived) = ROUNDS
        /\ \A j \in 1..ROUNDS : sg.derived[j] = sg.sig.challenges[j]

\* C3: verify is total: whatever signature it is given, it returns Ok or an
\* error value and never aborts.
C3_VerifyTotal ==
    sg.pc = "verified" => sg.res \in {"Ok", "Err"}

\* C4: after one challenge, one response scalar, one opened curve or one
\* Merkle proof entry of a valid signature is changed, verify returns an
\* error.
C4_SingleChangeRejected ==
    (sg.pc = "verified" /\ sg.tamper \in {"challenge", "response", "curve", "proof"})
        => sg.res = "Err"

\* a signature holds exactly R challenges, R responses and R opened curves
ConsistentShape(sig) ==
    /\ sig.tail_bytes = 0
    /\ Len(sig.challenges) = ROUNDS
    /\ Len(sig.ephemeral_cge) = ROUNDS
    /\ Len(sig.opened_curves) = ROUNDS

\* C5: verify returns an error for every signature of inconsistent shape.
C5_InconsistentShapeRejected ==
    (sg.pc = "verified" /\ ~ConsistentShape(sg.sig)) => sg.res = "Err"

\* the blinding drawn by the call: blinded_exponents - exponents
Drawn(st) == [ q \in Primes |-> st.blinded_exponents[q] - st.exponents[q] ]

\* C8: one_time_blinded_action(e, E) returns the curve that
\* variable_time_action(e, E) returns: in every coordinate the exponent of
\* the blind step plus the net exponent of the mop-up loop is e_i, for every
\* blinding draw and every outcome of the point sampling.
C8_SameCurve ==
    ot.pc = "returned" =>
        ot.st.e = variable_time_action(ot.st.exponents, ot.start)

\* a call has returned through the merged batch, from a start curve other
\* than the base curve, after a draw with a positive, a negative and a zero
\* coordinate
C8_Witness ==
    /\ ot.pc = "returned"
    /\ ot.st.i > MERGE_AFTER * NUM_BATCHES
    /\ \E q \in Primes : ot.start[q] # 0
    /\ \E q1, q2, q3 \in Primes :
         Drawn(ot.st)[q1] > 0 /\ Drawn(ot.st)[q2] < 0 /\ Drawn(ot.st)[q3] = 0
    /\ ot.st.e = variable_time_action(ot.st.exponents, ot.start)

\* C9: whenever one_time_blinded_action returns, the residual blinding B is
\* zero in every coordinate, for every blinding draw in [-2, 2] and every
\* outcome of the point sampling.
C9_ResidualZero ==
    ot.pc = "returned" => \A q \in Primes : ot.st.blinding[q] = 0

\* a call has returned with zero residual after a draw that holds 2 and -2,
\* without reaching the merged batch
C9_Witness ==
    /\ ot.pc = "returned"
    /\ ot.st.i <= MERGE_AFTER * NUM_BATCHES
    /\ \E q1, q2 \in Primes :
         Drawn(ot.st)[q1] = BLIND_MAX_EXP /\ Drawn(ot.st)[q2] = 0 - BLIND_MAX_EXP
    /\ \A q \in Primes : ot.st.blinding[q] = 0

\* C10: two runs of the mop-up loop that differ only in B and see the same
\* sampled points execute the same sequence of operations.
C10_SameOperations == lk.same

standard(a) ==
    LET p == limb_value(PRIME)
    IN CHOOSE n \in 0..(p - 1) : (n * Pow2(WordBits * LIMBS)) % p = limb_value(a) % p

\* C12: on operands in [0, p), add_reduce, sub_reduce and montgomery_mul
\* return exactly the representatives of (a + b) mod p, (a - b) mod p and
\* a * b mod p: the limbs a + b mod p, a - b mod p and a * b / R mod p.
C12_ExactArithmetic ==
    LET p == limb_value(PRIME)
    IN /\ fa.pc = "add" =>
            limb_value(fa.out) = (limb_value(fa.a) + limb_value(fa.b)) % p
       /\ fa.pc = "sub" =>
            limb_value(fa.out) = (limb_value(fa.a) - limb_value(fa.b)) % p
       /\ fa.pc = "mul" =>
            /\ ~fa.overflow
            /\ limb_value(fa.out) < p
            /\ standard(fa.out) = (standard(fa.a) * standard(fa.b)) % p

\* a product whose final subtraction of p is taken
C12_Witness ==
    /\ fa.pc = "mul"
    /\ montgomery_mul_NoReduce(fa.a, fa.b) # fa.out
    /\ standard(fa.out) = (standard(fa.a) * standard(fa.b)) % limb_value(PRIME)
    /\ standard(fa.out) # 0

\* C13: every FieldElement that add, sub, neg, mul and square return on
\* operands in [0, p), the operand 0 included, has its limb value in [0, p),
\* and a zero result is the all-zero limbs that is_zero and equality
\* recognise.
C13_ResultCanonical ==
    fa.pc \in {"add", "sub", "neg", "mul", "square"} =>
        /\ limb_value(fa.out) < limb_value(PRIME)
        /\ limb_value(fa.out) % limb_value(PRIME) = 0 =>
               is_zero(fa.out) /\ fa.out = to_limbs(0, LIMBS)

\* C14: for every a and every e < 2^ExpBits, constant_time_bounded_exp
\* returns a^e mod p, which is what vartime_exp returns, after exactly
\* ExpBits + 1 rounds of its loop.
C14_BoundedExp ==
    LET p == limb_value(PRIME)
        RECURSIVE PowMod(_, _)
        PowMod(x, e) == IF e = 0 THEN 1 % p ELSE (x * PowMod(x, e - 1)) % p
    IN fa.pc = "exp" =>
        /\ standard(fa.out) = PowMod(standard(fa.a), fa.e)
        /\ limb_value(fa.out) < p
        /\ fa.out = fa.vartime
        /\ fa.rounds = ExpBits + 1

\* an exponent with its top bit set, on a base other than 0 and 1, whose
\* power is not 1
C14_Witness ==
    /\ fa.pc = "exp"
    /\ fa.e >= Pow2(ExpBits - 1)
    /\ standard(fa.a) > 1
    /\ fa.out # ONE_MONTGOMERY
    /\ fa.out = fa.vartime
    /\ fa.rounds = ExpBits + 1

\* C15: for every non-zero a, inv(a) is some value with inv(a) * a = 1; inv(0)
\* is none, and Point::normalize maps a point with z = 0 to (1 : 0).
C15_Inverse ==
    fa.pc = "inv" =>
        IF fa.a = to_limbs(0, LIMBS)
        THEN /\ ~fa.res.is_some
             /\ fa.point = [ x |-> ONE_MONTGOMERY, z |-> to_limbs(0, LIMBS) ]
        ELSE /\ fa.res.is_some
             /\ montgomery_mul(fa.res.value, fa.a) = ONE_MONTGOMERY
             /\ fa.point = [ x |-> montgomery_mul(fa.x, fa.res.value),
                             z |-> ONE_MONTGOMERY ]

\* the inverse of an element other than 0, 1 and -1
C15_Witness ==
    /\ fa.pc = "inv"
    /\ standard(fa.a) \notin {0, 1, limb_value(PRIME) - 1}
    /\ fa.res.is_some
    /\ (standard(fa.res.value) * standard(fa.a)) % limb_value(PRIME) = 1

\* C16: a.conditional_move(c, b) leaves a unchanged when c = 0 and makes it b
\* when c = 1, b being the same afterwards; a.conditional_swap(c, b) leaves
\* both unchanged when c = 0 and exchanges them when c = 1; for all limbs.
C16_MoveAndSwap ==
    fa.pc = "move" =>
        /\ fa.out = (IF fa.c = 1 THEN fa.b ELSE fa.a)
        /\ fa.csel = fa.out
        /\ fa.swapped = (IF fa.c = 1 THEN <<fa.b, fa.a>> ELSE <<fa.a, fa.b>>)

\* a move that is not taken, of limbs that differ in every word, one of
\* them with all bits set
C16_Witness ==
    /\ fa.pc = "move"
    /\ fa.c = 0
    /\ \A i \in DOMAIN fa.a : fa.a[i] # fa.b[i]
    /\ \E i \in DOMAIN fa.a : fa.b[i] = Pow2(WordBits) - 1
    /\ fa.out = fa.a
    /\ fa.swapped = <<fa.a, fa.b>>

\* C17: from_be_bytes(x.get_be_bytes()) = x, get_be_bytes being the
\* big-endian encoding of the standard integer of x, most significant limb
\* first.
C17_RoundTrip ==
    fa.pc = "round_trip" =>
        /\ fa.out.res = "Ok"
        /\ fa.out.limbs = fa.a
        /\ LET per == WordBits \div ByteBits
               RECURSIVE BigEndian(_)
               BigEndian(n) == IF n = 0 THEN 0
                               ELSE BigEndian(n - 1) * Pow2(ByteBits) + fa.bytes[n]
           IN BigEndian(LIMBS * per) = standard(fa.a)

\* C18: from_be_bytes returns a DeserializationError for every input that is
\* not exactly one encoding long and for every input of that length whose
\* value is not below p, and never aborts.
C18_BadInputRejected ==
    fa.pc = "from_bytes" =>
        /\ fa.out.res # "Panic"
        /\ Len(fa.bytes) # LIMBS * (WordBits \div ByteBits) => fa.out.res = "Err"
        /\ fa.out.res = "Ok" => limb_value(fa.out.limbs) < limb_value(PRIME)

\* C19: add, sub and neg of ClassGroupElement return (x + y) mod N,
\* (x - y) mod N and -x mod N, every result, neg of 0 included, in [0, N).
C19_ClassGroupArithmetic ==
    LET N == limb_value(CLASSGROUP_ORDER)
    IN /\ fa.pc = "cg_add" =>
            limb_value(fa.out) = (limb_value(fa.a) + limb_value(fa.b)) % N
       /\ fa.pc = "cg_sub" =>
            limb_value(fa.out) = (limb_value(fa.a) - limb_value(fa.b)) % N
       /\ fa.pc = "cg_neg" =>
            limb_value(fa.out) = (0 - limb_value(fa.a)) % N
       /\ fa.pc \in {"cg_add", "cg_sub", "cg_neg"} => limb_value(fa.out) < N

\* the exponent vector e stands for the class-group element x
Represents(e, x) ==
    LET RECURSIVE fold(_)
        fold(n) == IF n = 0 THEN 0
                   ELSE fold(n - 1) + e[n] * LatticeConstants.DLOG[n]
    IN (fold(NUM_PRIMES) - x) % limb_value(CLASSGROUP_ORDER) = 0

\* C20: the exponent vector that reduce and reduce_one_round return stands
\* for x, it differs from (x, 0, ..., 0) by a relation of the class group,
\* and so does the vector after each stage: nearest plane, descent, restart.
C20_ReducePreserves ==
    fa.pc = "reduce" =>
        /\ Represents(fa.out, fa.x)
        /\ Represents(fa.one_round, fa.x)
        /\ \A n \in DOMAIN fa.stages : Represents(fa.stages[n], fa.x)

\* a reduction of an element other than 0 in which a descent shortens the
\* vector it starts from and a restart shortens the vector of the first descent
C20_Witness ==
    /\ fa.pc = "reduce"
    /\ fa.x # 0
    /\ \E n \in {1, 3, 5} : l1(fa.stages[n + 1]) < l1(fa.stages[n])
    /\ l1(fa.out) < l1(fa.stages[2])
    /\ Represents(fa.out, fa.x)

\* C21: if ClassGroupMerkleProof::verify returns Ok for the tree's root, then
\* every (label, hash) pair of the supplied leaf list, also of a list in
\* which a label occurs more than once, took part in recomputing the root and
\* so carries the hash the tree stores at that label: no supplied leaf is
\* skipped unchecked.
C21_EveryLeafChecked ==
    (mk.pc = "verified" /\ mk.res = "Ok" /\ mk.root = mk.tree.root) =>
        \A j \in DOMAIN mk.leaf_hashes :
            mk.leaf_hashes[j][2] = StoredHash(mk.tree, mk.leaf_hashes[j][1])

\* C22: for every signature, the Merkle leaf label VerifyingKey::verify
\* computes for round j is (|c_j| mod C) + C, C the curve-count parameter of
\* the scheme: it lies in [C, 2C) and depends on no field carried in the
\* signature other than the challenge.
C22_LabelFromParameter ==
    sg.pc \in {"signed", "tampered", "verified"} =>
        \A j \in DOMAIN sg.sig.challenges :
            LET c == Challenges(sg.sig)[j]
                label == LeafHashes(sg.vk, sg.sig)[j][1]
            IN /\ label = (unsigned_abs(c) % CURVES) + CURVES
               /\ label >= CURVES /\ label < 2 * CURVES

C24_TwoPerIndex ==
    [][ /\ ot.pc = "start" => \A q \in Primes : ot'.st.isogeny_count[q] = 2
        /\ ot.pc = "loop" =>
             \A q \in Primes :
                /\ ot'.st.isogeny_count[q] \in
                       { ot.st.isogeny_count[q], ot.st.isogeny_count[q] - 1 }
                /\ ot'.st.isogeny_count[q] \in 0..2
                /\ ot.st.isogeny_count[q] = 0 =>
                       /\ ot'.st.isogeny_count[q] = 0
                       /\ ot'.st.e[q] = ot.st.e[q]
                       /\ ot'.st.blinding[q] = ot.st.blinding[q]
                       /\ ~Returns(ot.st) =>
                              q \notin Enter(ot.st).batch_masks[Enter(ot.st).cur_batch]
        /\ ot'.pc = "returned" => \A q \in Primes : ot'.st.isogeny_count[q] = 0 ]_vars

\* a call has returned with every count at 0 after a draw whose residual
\* holds 0, 1 and 2 in absolute value: two dummy evaluations, one real and
\* one dummy, two real
C24_Witness ==
    /\ ot.pc = "returned"
    /\ \A q \in Primes : ot.st.isogeny_count[q] = 0
    /\ \E q1, q2, q3 \in Primes :
         /\ Drawn(ot.st)[q1] = 0
         /\ unsigned_abs(Drawn(ot.st)[q2]) = 1
         /\ unsigned_abs(Drawn(ot.st)[q3]) = 2

\* C25: the mop-up loop returns only in a state where isogeny_count[i] = 0
\* for every index i, and under fair sampling (every pending index eventually
\* gets a non-zero kernel point) a call that has entered the loop eventually
\* returns.
C25_ReturnsWhenDone ==
    /\ [](ot.pc = "returned" => \A q \in Primes : ot.st.isogeny_count[q] = 0)
    /\ (ot.pc = "loop" ~> ot.pc = "returned")

\* a call has returned from the merged batch with every count at 0
C25_Witness ==
    /\ ot.pc = "returned"
    /\ ot.st.i > MERGE_AFTER * NUM_BATCHES
    /\ \A q \in Primes : ot.st.isogeny_count[q] = 0
    /\ \E q \in Primes : Drawn(ot.st)[q] # 0

\* C26: the mop-up loop processes the residue-class batches (indices by
\* i mod NUM_BATCHES) for its first MERGE_AFTER * NUM_BATCHES iterations, and
\* from the iteration after those on it processes one merged batch made of
\* every index whose isogeny_count is non-zero.
C26_MergeAfterEight ==
    (ot.pc = "loop" /\ ~Returns(ot.st)) =>
        LET entered == Enter(ot.st)
            batch == entered.batch_masks[entered.cur_batch]
        IN IF ot.st.i < MERGE_AFTER * NUM_BATCHES
           THEN batch = { q \in Primes : q % NUM_BATCHES = entered.cur_batch
                                         /\ ot.st.isogeny_count[q] # 0 }
           ELSE batch = { q \in Primes : ot.st.isogeny_count[q] # 0 }

\* C27: in the blind step every drawn r_i lies in [-2, 2], the blinded
\* exponent is e'_i = e_i + r_i and the residual is B_i = -r_i, so that
\* e'_i + B_i = e_i; in the mop-up loop B_i only moves one step toward zero:
\* |B_i| never increases and B_i never changes sign.
C27_BlindAndResidual ==
    [][ /\ ot.pc = "start" =>
             \A q \in Primes :
                LET r == ot'.st.blinded_exponents[q] - ot'.st.exponents[q]
                IN /\ r \in (0 - BLIND_MAX_EXP)..BLIND_MAX_EXP
                   /\ ot'.st.blinding[q] = 0 - r
                   /\ ot'.st.blinded_exponents[q] + ot'.st.blinding[q]
                          = ot'.st.exponents[q]
        /\ ot.pc = "loop" =>
             \A q \in Primes :
                LET B == ot.st.blinding[q]
                    B2 == ot'.st.blinding[q]
                IN /\ unsigned_abs(B2) \in { unsigned_abs(B), unsigned_abs(B) - 1 }
                   /\ B * B2 >= 0
                   /\ B = 0 => B2 = 0
                   /\ ot'.st.blinded_exponents[q] = ot.st.blinded_exponents[q]
                   /\ ot'.st.exponents[q] = ot.st.exponents[q] ]_vars

\* after a draw that holds -2 and 2, the residual 2 has moved to 1 and then
\* to 0, and the residual -2 to -1
C27_Witness ==
    /\ ot.pc = "loop"
    /\ \E q1, q2 \in Primes :
         /\ Drawn(ot.st)[q1] = 0 - BLIND_MAX_EXP
         /\ ot.st.blinding[q1] = 0
         /\ ot.st.isogeny_count[q1] = 0
         /\ Drawn(ot.st)[q2] = BLIND_MAX_EXP
         /\ ot.st.blinding[q2] = -1

\* the nodes on the root paths of the leaves S, the root among them
PathNodes(tree, S) ==
    { (TreeCurves(tree) + S[i]) \div Pow2(k) :
        i \in DOMAIN S, k \in 0..TreeDepth(tree) }

\* the siblings of path nodes that are on no path
Required(tree, S) ==
    { n \in 2..(2 * TreeCurves(tree) - 1) :
        /\ n \notin PathNodes(tree, S)
        /\ \E m \in PathNodes(tree, S) :
             m # n /\ m \div 2 = n \div 2 }

\* C28: proof_from_leaf_indices(S) returns exactly one (label, hash) pair for
\* each node that is the sibling of a node on the root path of a leaf of S
\* and is itself on no such path: no other label, no label twice, never the
\* root, each with the hash the tree stores at that heap label.
C28_ExactProof ==
    mk.pc = "proved" =>
        LET proof == mk.proof.proof
        IN /\ { proof[k][1] : k \in DOMAIN proof } = Required(mk.tree, mk.indices)
           /\ \A k, l \in DOMAIN proof : proof[k][1] = proof[l][1] => k = l
           /\ \A k \in DOMAIN proof :
                /\ proof[k][1] # 1
                /\ proof[k][2] = StoredHash(mk.tree, proof[k][1])

\* a proof for two leaves under different children of the root, one of them
\* opened twice, in a tree of depth 2: a leaf sibling for each, nothing else
C28_Witness ==
    /\ mk.pc = "proved"
    /\ TreeDepth(mk.tree) = 2
    /\ Len(mk.indices) = 3
    /\ mk.indices[1] = mk.indices[3]
    /\ mk.indices[1] \div 2 # mk.indices[2] \div 2
    /\ Len(mk.proof.proof) = 2
    /\ \A k \in DOMAIN mk.proof.proof : mk.proof.proof[k][1] >= 4

\* C29: dlw_reduce terminates for every input vector and pool size; the
\* vector it returns has an L1 norm no larger than that of its input; and on
\* return no vector of the pool, added or subtracted, gives a strictly
\* smaller L1 norm.
C29_DescentTerminates ==
    /\ (fa.pc = "dlw" ~> fa.pc = "dlw_done")
    /\ [](fa.pc \in {"dlw", "scan", "dlw_done"} =>
            /\ l1(fa.st.e_prime) <= l1(fa.e)
            /\ fa.st.best_norm = l1(fa.st.e_prime))
    /\ [](fa.pc = "dlw_done" =>
            /\ fa.st.e_prime = dlw_reduce(fa.e, fa.pool_size)
            /\ \A idx \in 1..fa.pool_size :
                 /\ l1(add_slice(fa.st.e_prime, LatticeConstants.POOL[idx]))
                        >= l1(fa.st.e_prime)
                 /\ l1(sub_slice(fa.st.e_prime, LatticeConstants.POOL[idx]))
                        >= l1(fa.st.e_prime))

\* a call over the whole pool has returned a vector shorter by 4 or more than
\* its input, other than the zero vector
C29_Witness ==
    /\ fa.pc = "dlw_done"
    /\ fa.pool_size = Len(LatticeConstants.POOL)
    /\ l1(fa.st.e_prime) + 4 <= l1(fa.e)
    /\ l1(fa.st.e_prime) > 0

====
